---- MODULE Spec2Model ----
(***************************************************************************)
(* A model of the karaoke subtitle compiler of app/subtitles.py: the time  *)
(* codec, the transcript parser, the syllabifier, the phrase grouper, the  *)
(* karaoke timing allocator and the document writer.                       *)
(*                                                                         *)
(* Text is modelled as a sequence of one-character strings, so that the    *)
(* regular expressions, slices and joins of the source act on characters.  *)
(***************************************************************************)
EXTENDS Integers, Sequences, FiniteSets, TLC

VARIABLES
    segundos,      \* time codec: the argument of segundos_a_tiempo_srt
    time_str,      \* time codec: the text handed to parse_time_to_ms
    tresult,       \* time codec: what parse_time_to_ms returned or raised
    tpc,           \* time codec: position
    word,          \* split_syllables: its argument
    parts,         \* split_syllables: the parts appended so far / returned
    i,             \* split_syllables: the cursor of the scan loop
    spc,           \* split_syllables: position
    phrase_words,  \* ass_line: its argument
    line,          \* ass_line: the Dialogue line it returned
    lpc,           \* ass_line: position
    srt,           \* convertir_srt_a_ass: the transcript at srt_path
    ass_file,      \* convertir_srt_a_ass: the file at ass_output
    ret,           \* convertir_srt_a_ass: what it returned
    pc,            \* convertir_srt_a_ass: position
    cfg_style,     \* convertir_srt_a_ass: the visual style
    words,         \* the word list (parsed, or handed to group_words)
    cfg_video,     \* the layout configuration
    cfg_group,     \* the grouping configuration
    phrases,       \* group_words: the phrases of the split step
    optimized,     \* group_words: the phrases it returns
    gpc,           \* group_words: position
    previous,      \* the phrases earlier group_words calls returned
    archivo_estado,   \* karaoke: what estado.json of the job holds
    estados_jobs,     \* karaoke: the entry of the job in estados_jobs
    video_karaoke,    \* karaoke: whether ruta_video_karaoke exists
    hilos,            \* karaoke: the pipeline threads started for the job
    handler,          \* karaoke: the position of ejecutar_karaoke
    respuestas,       \* karaoke: the status of every response returned
    default_job_id,   \* Job.__init__: the default value of job_id
    uploads           \* upload handler: the job and the file of each upload

timeVars == <<segundos, time_str, tresult, tpc>>
sylVars == <<word, parts, i, spc>>
lineVars == <<phrase_words, line, lpc>>
fileVars == <<srt, ass_file, ret, pc, cfg_style>>
groupVars ==
    <<words, cfg_video, cfg_group, phrases, optimized, gpc, previous>>

karaokeVars ==
    <<archivo_estado, estados_jobs, video_karaoke, hilos, handler, respuestas>>
uploadVars == <<default_job_id, uploads>>
jobVars == <<karaokeVars, uploadVars>>

vars == <<timeVars, sylVars, lineVars, fileVars, groupVars, jobVars>>

(***************************************************************************)
(* Characters                                                              *)
(***************************************************************************)
DigitChars == <<"0", "1", "2", "3", "4", "5", "6", "7", "8", "9">>

\* str.isdigit / the regex class \d, on the characters of the model
IsDigit(c) == \E k \in 1..10 : DigitChars[k] = c

\* int() of one digit character
DigitVal(c) == (CHOOSE k \in 1..10 : DigitChars[k] = c) - 1

\* int() of a run of digit characters
RECURSIVE IntOf(_)
IntOf(s) == IF s = <<>> THEN 0
            ELSE 10 * IntOf(SubSeq(s, 1, Len(s) - 1)) + DigitVal(s[Len(s)])

\* the decimal digits of n >= 0, as str(n) writes them
RECURSIVE Digits(_)
Digits(n) == IF n < 10 THEN <<DigitChars[n + 1]>>
             ELSE Digits(n \div 10) \o <<DigitChars[(n % 10) + 1]>>

\* the format specs 02.0f / 03.0f / 02d on a whole number n >= 0: at least
\* w digits, zero-padded on the left, never cut
RECURSIVE ZeroPad(_, _)
ZeroPad(s, w) == IF Len(s) >= w THEN s ELSE ZeroPad(<<"0">> \o s, w)

Fmt(n, w) == ZeroPad(Digits(n), w)

(***************************************************************************)
(* Time codec                                                              *)
(***************************************************************************)
HourMs == 3600000
MinuteMs == 60000
SecondMs == 1000

\* segundos_a_tiempo_srt.  The float argument is modelled as a whole number
\* of milliseconds plus tenths of a millisecond (segundos = (ms + tenth/10)
\* / 1000).  divmod by 3600, 60 and 1 truncates; frac * 1000 is formatted
\* with 03.0f, which rounds to the nearest whole number: the float error of
\* frac * 1000 is below 1e-6 for arguments under 100 hours, so the rounding
\* is that of the exact value (tenth = 5 is not drawn).
MsField(seg) == (seg.ms % SecondMs) + (IF seg.tenth > 5 THEN 1 ELSE 0)

\* segundos_a_tiempo_srt with the milliseconds written without zero padding
Mut_segundos_a_tiempo_srt(seg) ==
    LET horas   == seg.ms \div HourMs
        minutos == (seg.ms % HourMs) \div MinuteMs
        segs    == (seg.ms % MinuteMs) \div SecondMs
    IN  Fmt(horas, 2) \o <<":">> \o Fmt(minutos, 2) \o <<":">>
        \o Fmt(segs, 2) \o <<",">> \o Digits(MsField(seg))

segundos_a_tiempo_srt(seg) ==
    LET horas   == seg.ms \div HourMs
        minutos == (seg.ms % HourMs) \div MinuteMs
        segs    == (seg.ms % MinuteMs) \div SecondMs
    IN  Fmt(horas, 2) \o <<":">> \o Fmt(minutos, 2) \o <<":">>
        \o Fmt(segs, 2) \o <<",">> \o Fmt(MsField(seg), 3)

\* re.match(r"(\d{2}):(\d{2}):(\d{2}),(\d{3})", time_str): the pattern is
\* anchored at the start of the text only
TimeLen == 12

TimeMatch(s) ==
    /\ Len(s) >= TimeLen
    /\ \A k \in {1, 2, 4, 5, 7, 8, 10, 11, 12} : IsDigit(s[k])
    /\ s[3] = ":" /\ s[6] = ":" /\ s[9] = ","

\* the result of a call: a value, or the ValueError it raised
Value(v) == [err |-> FALSE, val |-> v]
ValueError == [err |-> TRUE, val |-> 0]

TimeFields(s) ==
    IntOf(SubSeq(s, 1, 2)) * HourMs + IntOf(SubSeq(s, 4, 5)) * MinuteMs
    + IntOf(SubSeq(s, 7, 8)) * SecondMs + IntOf(SubSeq(s, 10, 12))

parse_time_to_ms(s) ==
    IF ~TimeMatch(s) THEN ValueError ELSE Value(TimeFields(s))

(***************************************************************************)
(* Syllabifier                                                             *)
(***************************************************************************)
LowerChars ==
    <<"a", "b", "c", "d", "e", "f", "g", "h", "i", "j", "k", "l", "m",
      "n", "o", "p", "q", "r", "s", "t", "u", "v", "w", "x", "y", "z">>
UpperChars ==
    <<"A", "B", "C", "D", "E", "F", "G", "H", "I", "J", "K", "L", "M",
      "N", "O", "P", "Q", "R", "S", "T", "U", "V", "W", "X", "Y", "Z">>

\* str.isalpha on one character (the model's texts are ASCII)
IsAlpha(c) == \E k \in 1..26 : LowerChars[k] = c \/ UpperChars[k] = c

\* str.lower on one character
Lower(c) == IF \E k \in 1..26 : UpperChars[k] = c
            THEN LowerChars[CHOOSE k \in 1..26 : UpperChars[k] = c]
            ELSE c

\* the ASCII members of VOWELS; its accented members are not in the model's
\* alphabet
VOWELS == {"a", "e", "i", "o", "u", "A", "E", "I", "O", "U"}

\* Python's wd[idx] and wd[a:b], on 0-based positions
At(wd, idx) == wd[idx + 1]
Slice(wd, a, b) == SubSeq(wd, a + 1, b)

is_consonant(wd, idx) ==
    /\ 0 <= idx /\ idx < Len(wd)
    /\ IsAlpha(At(wd, idx))
    /\ At(wd, idx) \notin VOWELS

is_vowel(wd, idx) ==
    /\ 0 <= idx /\ idx < Len(wd)
    /\ At(wd, idx) \in VOWELS

\* IsDigraph that compares wd[j : j + 2] as it is written
Mut_IsDigraph(wd, j) ==
    /\ j + 1 < Len(wd)
    /\ <<At(wd, j), At(wd, j + 1)>>
           \in {<<"c", "h">>, <<"l", "l">>, <<"r", "r">>}

\* wd[j : j + 2].lower() in ("ch", "ll", "rr")
IsDigraph(wd, j) ==
    /\ j + 1 < Len(wd)
    /\ <<Lower(At(wd, j)), Lower(At(wd, j + 1))>>
           \in {<<"c", "h">>, <<"l", "l">>, <<"r", "r">>}

\* AfterConsonant that leaves the cursor in front of the consonant
Mut_AfterConsonant(wd, j) == j

\* the leading consonant unit: one consonant, or a digraph
AfterConsonant(wd, j) ==
    IF is_consonant(wd, j)
    THEN IF j + 1 < Len(wd)
         THEN IF IsDigraph(wd, j) THEN j + 2 ELSE j + 1
         ELSE j + 1
    ELSE j

\* while is_vowel(j): j += 1
RECURSIVE VowelRunEnd(_, _)
VowelRunEnd(wd, j) ==
    IF is_vowel(wd, j) THEN VowelRunEnd(wd, j + 1) ELSE j

\* SylCut that closes every syllable with the consonant after its vowels
Mut_SylCut(wd, c) ==
    IF ~IsAlpha(At(wd, c)) THEN c + 1
    ELSE LET j1 == AfterConsonant(wd, c)
         IN  IF ~is_vowel(wd, j1) THEN j1
             ELSE LET j2 == VowelRunEnd(wd, j1)
                  IN  IF is_consonant(wd, j2) THEN j2 + 1 ELSE j2

\* one iteration of the scan loop at cursor c < len(wd): the cursor after
\* it (the part appended is wd[c : that cursor])
SylCut(wd, c) ==
    IF ~IsAlpha(At(wd, c)) THEN c + 1
    ELSE LET j1 == AfterConsonant(wd, c)
         IN  IF ~is_vowel(wd, j1) THEN j1
             ELSE LET j2 == VowelRunEnd(wd, j1)
                  IN  IF is_consonant(wd, j2) /\ is_consonant(wd, j2 + 1)
                      THEN j2
                      ELSE IF is_consonant(wd, j2) /\ is_vowel(wd, j2 + 1)
                           THEN j2
                           ELSE IF is_consonant(wd, j2) THEN j2 + 1 ELSE j2

\* SylPart that appends nothing for a character that is not a letter
Mut_SylPart(wd, c) ==
    IF ~IsAlpha(At(wd, c)) THEN <<>> ELSE Slice(wd, c, SylCut(wd, c))

\* the part one iteration appends: wd[j] for a character that is not a
\* letter, wd[i:j] otherwise
SylPart(wd, c) == Slice(wd, c, SylCut(wd, c))

\* [p for p in parts if p]
RECURSIVE NonEmptyParts(_)
NonEmptyParts(ps) ==
    IF ps = <<>> THEN <<>>
    ELSE (IF Head(ps) = <<>> THEN <<>> ELSE <<Head(ps)>>)
         \o NonEmptyParts(Tail(ps))

\* the scan loop from cursor c with the parts collected so far; fuel bounds
\* the iterations the model follows (a cursor that does not advance would
\* loop forever in the source)
RECURSIVE SylLoop(_, _, _, _)
SylLoop(wd, c, ps, fuel) ==
    IF c >= Len(wd) \/ fuel = 0 THEN ps
    ELSE SylLoop(wd, SylCut(wd, c), Append(ps, SylPart(wd, c)), fuel - 1)

HasAlpha(wd) == \E k \in 1..Len(wd) : IsAlpha(wd[k])

split_syllables(wd) ==
    IF wd = <<>> THEN <<wd>>
    ELSE IF ~HasAlpha(wd) THEN <<wd>>
    ELSE NonEmptyParts(SylLoop(wd, 0, <<>>, Len(wd)))

\* "".join(parts)
RECURSIVE Concat(_)
Concat(ps) == IF ps = <<>> THEN <<>> ELSE Head(ps) \o Concat(Tail(ps))

(***************************************************************************)
(* Phrase grouper                                                          *)
(***************************************************************************)
DEFAULT_VIDEO ==
    [width |-> 1920, height |-> 1080, font_size |-> 50,
     margin_left |-> 30, margin_right |-> 30, margin_vertical |-> 45]

DEFAULT_GROUP == [pause_threshold_ms |-> 800]

SentencePauseMs == 500
MergePauseMs == 600
MergeMaxWords == 4

\* estimate_char_width returns font_size * 0.6; the model keeps it in tenths
\* of a pixel, font_size * 6, and compares against ten times the width (the
\* float comparison agrees with the exact one for every font size up to 100
\* and every length the model reaches)
estimate_char_width(font_size) == font_size * 6

available_width(cv) == cv.width - cv.margin_left - cv.margin_right

\* " ".join(w["text"] for w in ws)
RECURSIVE JoinTexts(_)
JoinTexts(ws) ==
    IF ws = <<>> THEN <<>>
    ELSE IF Len(ws) = 1 THEN ws[1].text
    ELSE ws[1].text \o <<" ">> \o JoinTexts(Tail(ws))

\* should_wrap_line that measures the line without the next word
Mut_should_wrap_line(current_words, next_word, cv) ==
    IF current_words = <<>> THEN FALSE
    ELSE Len(JoinTexts(current_words)) * estimate_char_width(cv.font_size)
             > 10 * available_width(cv)

should_wrap_line(current_words, next_word, cv) ==
    IF current_words = <<>> THEN FALSE
    ELSE LET cand == JoinTexts(current_words) \o <<" ">> \o next_word.text
         IN  Len(cand) * estimate_char_width(cv.font_size)
                 > 10 * available_width(cv)

\* str.rstrip, on the whitespace of the model (the space)
RECURSIVE RStrip(_)
RStrip(t) == IF t # <<>> /\ t[Len(t)] = " "
             THEN RStrip(SubSeq(t, 1, Len(t) - 1)) ELSE t

\* text.rstrip().endswith((".", "!", "?"))
EndsSentence(t) ==
    LET r == RStrip(t) IN r # <<>> /\ r[Len(r)] \in {".", "!", "?"}

Pause(prev_w, w) == w.start_ms - prev_w.end_ms

\* Mut_SentenceSplit: should_split that breaks after every sentence end,
\* whatever the pause
Mut_SentenceSplit(prev_w, w, current, cv, cg) ==
    \/ Pause(prev_w, w) > cg.pause_threshold_ms
    \/ EndsSentence(prev_w.text)
    \/ should_wrap_line(current, w, cv)

\* should_split without the sentence-end rule
Mut_NoSentenceSplit(prev_w, w, current, cv, cg) ==
    \/ Pause(prev_w, w) > cg.pause_threshold_ms
    \/ should_wrap_line(current, w, cv)

\* should_split without the pause threshold
Mut_should_split(prev_w, w, current, cv, cg) ==
    \/ (EndsSentence(prev_w.text) /\ Pause(prev_w, w) > SentencePauseMs)
    \/ should_wrap_line(current, w, cv)

should_split(prev_w, w, current, cv, cg) ==
    \/ Pause(prev_w, w) > cg.pause_threshold_ms
    \/ (EndsSentence(prev_w.text) /\ Pause(prev_w, w) > SentencePauseMs)
    \/ should_wrap_line(current, w, cv)

\* the split loop of group_words from word k (1-based) on, with the phrases
\* closed so far and the phrase being filled; at the end the open phrase is
\* closed.  "if current:" is kept as the source has it.
RECURSIVE SplitLoop(_, _, _, _, _, _)
SplitLoop(ws, k, phrs, current, cv, cg) ==
    IF k > Len(ws)
    THEN IF current # <<>> THEN Append(phrs, current) ELSE phrs
    ELSE IF should_split(ws[k - 1], ws[k], current, cv, cg)
         THEN SplitLoop(ws, k + 1,
                        IF current # <<>> THEN Append(phrs, current) ELSE phrs,
                        <<ws[k]>>, cv, cg)
         ELSE SplitLoop(ws, k + 1, phrs, Append(current, ws[k]), cv, cg)

SplitPhrases(ws, cv, cg) ==
    IF ws = <<>> THEN <<>> ELSE SplitLoop(ws, 2, <<>>, <<ws[1]>>, cv, cg)

\* whether cur and nxt are merged by the optimization pass
Fits(comb, cv) ==
    Len(JoinTexts(comb)) * estimate_char_width(cv.font_size)
        <= 10 * available_width(cv)

\* ShouldMerge that answers from a state kept between calls: it merges on
\* the first call only
Mut_StatefulMerge(cur, nxt, cv) ==
    /\ previous = <<>>
    /\ nxt[1].start_ms - cur[Len(cur)].end_ms < MergePauseMs
    /\ Fits(cur \o nxt, cv)

\* ShouldMerge without the pause between the two phrases
Mut_ShouldMerge(cur, nxt, cv) == Fits(cur \o nxt, cv)

ShouldMerge(cur, nxt, cv) ==
    /\ nxt[1].start_ms - cur[Len(cur)].end_ms < MergePauseMs
    /\ Fits(cur \o nxt, cv)

\* OptimizeLoop that merges a phrase of any number of words
RECURSIVE Mut_OptimizeAnyLength(_, _, _, _)
Mut_OptimizeAnyLength(phrs, k, opt, cv) ==
    IF k > Len(phrs) THEN opt
    ELSE IF /\ k + 1 <= Len(phrs)
            /\ ShouldMerge(phrs[k], phrs[k + 1], cv)
         THEN Mut_OptimizeAnyLength(phrs, k + 2,
                                    Append(opt, phrs[k] \o phrs[k + 1]), cv)
         ELSE Mut_OptimizeAnyLength(phrs, k + 1, Append(opt, phrs[k]), cv)

\* OptimizeLoop that steps to the next phrase after a merge (i += 1)
RECURSIVE Mut_OptimizeLoop(_, _, _, _)
Mut_OptimizeLoop(phrs, k, opt, cv) ==
    IF k > Len(phrs) THEN opt
    ELSE IF /\ Len(phrs[k]) < MergeMaxWords
            /\ k + 1 <= Len(phrs)
            /\ ShouldMerge(phrs[k], phrs[k + 1], cv)
         THEN Mut_OptimizeLoop(phrs, k + 1,
                               Append(opt, phrs[k] \o phrs[k + 1]), cv)
         ELSE Mut_OptimizeLoop(phrs, k + 1, Append(opt, phrs[k]), cv)

\* the optimization loop from phrase k (1-based) on
RECURSIVE OptimizeLoop(_, _, _, _)
OptimizeLoop(phrs, k, opt, cv) ==
    IF k > Len(phrs) THEN opt
    ELSE IF /\ Len(phrs[k]) < MergeMaxWords
            /\ k + 1 <= Len(phrs)
            /\ ShouldMerge(phrs[k], phrs[k + 1], cv)
         THEN OptimizeLoop(phrs, k + 2, Append(opt, phrs[k] \o phrs[k + 1]), cv)
         ELSE OptimizeLoop(phrs, k + 1, Append(opt, phrs[k]), cv)

OptimizePhrases(phrs, cv) == OptimizeLoop(phrs, 1, <<>>, cv)

group_words(ws, cv, cg) ==
    IF ws = <<>> THEN <<>> ELSE OptimizePhrases(SplitPhrases(ws, cv, cg), cv)

\* all the words of a list of phrases, in order
RECURSIVE Flatten(_)
Flatten(phrs) == IF phrs = <<>> THEN <<>> ELSE Head(phrs) \o Flatten(Tail(phrs))

(***************************************************************************)
(* Karaoke timing allocator and document builder                           *)
(***************************************************************************)
DEFAULT_STYLE ==
    [name |-> "Karaoke", font |-> "Arial Black", primary |-> "&H00FFFF00",
     secondary |-> "&H00FF00FF", outline |-> "&H00000000",
     back |-> "&H80000000", outline_width |-> 3, shadow |-> 2,
     alignment |-> 2]

Max(a, b) == IF a >= b THEN a ELSE b

\* Python's round(num / den) for den > 0: to the nearest whole number, a tie
\* to the even one.  (end_ms - start_ms) / 10 is exact at a tie; for
\* dur_cs * (len / total) the float result rounds as the exact quotient does
\* for every total up to 9 characters, which bounds the model's words.
RoundHalfEven(num, den) ==
    LET q == num \div den
        r == num % den
    IN  IF 2 * r > den THEN q + 1
        ELSE IF 2 * r < den THEN q
        ELSE IF q % 2 = 0 THEN q ELSE q + 1

\* ms_to_ass_time that rounds the centiseconds to the nearest
Mut_ms_to_ass_time(ms) ==
    LET h  == ms \div HourMs
        m  == (ms % HourMs) \div MinuteMs
        sc == (ms % MinuteMs) \div SecondMs
        cs == ((ms % SecondMs) + 5) \div 10
    IN  Digits(h) \o <<":">> \o Fmt(m, 2) \o <<":">> \o Fmt(sc, 2)
        \o <<".">> \o Fmt(cs, 2)

\* ms_to_ass_time whose minutes are not taken within the hour
Mut_ms_to_ass_time_minutes(ms) ==
    LET h  == ms \div HourMs
        m  == ms \div MinuteMs
        sc == (ms % MinuteMs) \div SecondMs
        cs == (ms % SecondMs) \div 10
    IN  Digits(h) \o <<":">> \o Fmt(m, 2) \o <<":">> \o Fmt(sc, 2)
        \o <<".">> \o Fmt(cs, 2)

ms_to_ass_time(ms) ==
    LET h  == ms \div HourMs
        m  == (ms % HourMs) \div MinuteMs
        sc == (ms % MinuteMs) \div SecondMs
        cs == (ms % SecondMs) \div 10
    IN  Digits(h) \o <<":">> \o Fmt(m, 2) \o <<":">> \o Fmt(sc, 2)
        \o <<".">> \o Fmt(cs, 2)

\* the fields ass_header writes that depend on its arguments
ass_header(cv, style) ==
    [aspect |-> <<cv.width, cv.height>>,
     style_name |-> style.name, font |-> style.font,
     font_size |-> cv.font_size,
     colours |-> <<style.primary, style.secondary, style.outline, style.back>>,
     outline_width |-> style.outline_width, shadow |-> style.shadow,
     alignment |-> style.alignment,
     margins |-> <<cv.margin_left, cv.margin_right, cv.margin_vertical>>]

\* has_letters(tok)
has_letters(tok) == HasAlpha(tok)

\* dur_cs that drops the last digit of the milliseconds
Mut_dur_cs(w) == Max(0, (w.end_ms - w.start_ms) \div 10)

dur_cs(w) == Max(0, RoundHalfEven(w.end_ms - w.start_ms, 10))

\* tokens = split_syllables(w["text"]) or [w["text"]]
Tokens(w) ==
    LET t == split_syllables(w.text) IN IF t = <<>> THEN <<w.text>> ELSE t

RECURSIVE TimedChars(_)
TimedChars(toks) ==
    IF toks = <<>> THEN 0
    ELSE (IF has_letters(Head(toks)) THEN Len(Head(toks)) ELSE 0)
         + TimedChars(Tail(toks))

RECURSIVE TimedCount(_)
TimedCount(toks) ==
    IF toks = <<>> THEN 0
    ELSE (IF has_letters(Head(toks)) THEN 1 ELSE 0) + TimedCount(Tail(toks))

\* one karaoke unit {\kf<cs>}<text>
Unit(cs, text) == [cs |-> cs, text |-> text]

\* a word without letters: the first token carries dur_cs
RECURSIVE UntimedLoop(_, _, _, _)
UntimedLoop(toks, k, first, dur) ==
    IF k > Len(toks) THEN <<>>
    ELSE IF first /\ dur > 0
         THEN <<Unit(dur, toks[k])>> \o UntimedLoop(toks, k + 1, FALSE, dur)
         ELSE <<Unit(0, toks[k])>> \o UntimedLoop(toks, k + 1, first, dur)

\* TokenCs that gives the last timed token its proportional share
Mut_TokenCsShare(tok, dur, total, allocated, remaining) ==
    IF dur > 0
    THEN Max(1, RoundHalfEven(dur * Len(tok), IF total = 0 THEN 1 ELSE total))
    ELSE 0

\* TokenCs that gives the last timed token the residual without a floor
Mut_TokenCsNoFloor(tok, dur, total, allocated, remaining) ==
    IF remaining = 0
    THEN IF dur > 0 THEN Max(0, dur - allocated) ELSE 0
    ELSE IF dur > 0
         THEN Max(1, RoundHalfEven(dur * Len(tok),
                                   IF total = 0 THEN 1 ELSE total))
         ELSE 0

\* the centiseconds of a timed token: the residual for the last one, its
\* proportional share otherwise
TokenCs(tok, dur, total, allocated, remaining) ==
    IF remaining = 0
    THEN IF dur > 0 THEN Max(1, dur - allocated) ELSE 0
    ELSE IF dur > 0
         THEN Max(1, RoundHalfEven(dur * Len(tok),
                                   IF total = 0 THEN 1 ELSE total))
         ELSE 0

\* a word with letters: the loop over its tokens
RECURSIVE TimedLoop(_, _, _, _, _, _)
TimedLoop(toks, k, allocated, remaining, dur, total) ==
    IF k > Len(toks) THEN <<>>
    ELSE IF has_letters(toks[k])
         THEN LET cs == TokenCs(toks[k], dur, total, allocated, remaining - 1)
              IN  <<Unit(cs, toks[k])>>
                  \o TimedLoop(toks, k + 1, allocated + cs, remaining - 1,
                               dur, total)
         ELSE <<Unit(0, toks[k])>>
              \o TimedLoop(toks, k + 1, allocated, remaining, dur, total)

\* the units ass_line writes for one word
WordUnits(w) ==
    LET toks == Tokens(w)
        total == TimedChars(toks)
    IN  IF total = 0 THEN UntimedLoop(toks, 1, TRUE, dur_cs(w))
        ELSE TimedLoop(toks, 1, 0, TimedCount(toks), dur_cs(w), total)

\* PauseUnit that drops the last digit of the milliseconds
Mut_PauseUnit(w, nxt) ==
    Unit(Max(0, Max(0, nxt.start_ms - w.end_ms) \div 10), <<" ">>)

\* the pause unit between a word and the next one of the phrase
PauseUnit(w, nxt) ==
    Unit(Max(0, RoundHalfEven(Max(0, nxt.start_ms - w.end_ms), 10)), <<" ">>)

RECURSIVE KaraokeUnits(_, _)
KaraokeUnits(pw, idx) ==
    IF idx > Len(pw) THEN <<>>
    ELSE WordUnits(pw[idx])
         \o (IF idx < Len(pw) THEN <<PauseUnit(pw[idx], pw[idx + 1])>>
             ELSE <<>>)
         \o KaraokeUnits(pw, idx + 1)

ass_line(pw) ==
    [layer |-> 0,
     start |-> ms_to_ass_time(pw[1].start_ms),
     end   |-> ms_to_ass_time(pw[Len(pw)].end_ms),
     style |-> "Karaoke",
     units |-> KaraokeUnits(pw, 1)]

\* The text of the document is a sequence of fragments: the literal pieces
\* of the f-strings, one-character strings for what is formatted into them,
\* and "\n" for every newline.

\* the lines of the text ass_header returns, each of which ends in "\n"
HeaderLines(h) ==
    << <<"[Script Info]">>,
       <<"Title: Karaoke">>,
       <<"ScriptType: v4.00+">>,
       <<"Collisions: Normal">>,
       <<"PlayDepth: 0">>,
       <<"Timer: 100.0000">>,
       <<"Video Aspect Ratio: ">> \o Digits(h.aspect[1]) \o <<":">>
           \o Digits(h.aspect[2]),
       <<"WrapStyle: 0">>,
       <<>>,
       <<"[V4+ Styles]">>,
       <<"Format: Name, Fontname, Fontsize, PrimaryColour, SecondaryColour, ",
         "OutlineColour, BackColour, ",
         "Bold, Italic, Underline, StrikeOut, ScaleX, ScaleY, Spacing, Angle, ",
         "BorderStyle, Outline, Shadow, ",
         "Alignment, MarginL, MarginR, MarginV, Encoding">>,
       <<"Style: ", h.style_name, ",", h.font, ",">> \o Digits(h.font_size)
           \o <<",", h.colours[1], ",", h.colours[2], ",", h.colours[3], ",",
                h.colours[4], ",1,0,0,0,100,100,0,0,1,">>
           \o Digits(h.outline_width) \o <<",">> \o Digits(h.shadow)
           \o <<",">> \o Digits(h.alignment) \o <<",">>
           \o Digits(h.margins[1]) \o <<",">> \o Digits(h.margins[2])
           \o <<",">> \o Digits(h.margins[3]) \o <<",1">>,
       <<>>,
       <<"[Events]">>,
       <<"Format: Layer, Start, End, Style, Name, MarginL, ",
         "MarginR, MarginV, Effect, Text">> >>

\* the text ass_header returns
RECURSIVE HeaderText(_)
HeaderText(hl) ==
    IF hl = <<>> THEN <<>> ELSE Head(hl) \o <<"\n">> \o HeaderText(Tail(hl))

\* karaoke_text: {\kf<cs>}<text> for every unit
RECURSIVE RenderUnits(_)
RenderUnits(us) ==
    IF us = <<>> THEN <<>>
    ELSE <<"{\\kf">> \o Digits(Head(us).cs) \o <<"}">> \o Head(us).text
         \o RenderUnits(Tail(us))

\* the text ass_line returns
RenderLine(ln) ==
    <<"Dialogue: ">> \o Digits(ln.layer) \o <<",">> \o ln.start \o <<",">>
    \o ln.end \o <<",", ln.style, ",,0,0,0,,">> \o RenderUnits(ln.units)

\* JoinNewline that leaves a blank line between two lines
RECURSIVE Mut_JoinNewline(_)
Mut_JoinNewline(ls) ==
    IF ls = <<>> THEN <<>>
    ELSE IF Len(ls) = 1 THEN ls[1]
    ELSE ls[1] \o <<"\n", "\n">> \o Mut_JoinNewline(Tail(ls))

\* "\n".join(lines)
RECURSIVE JoinNewline(_)
JoinNewline(ls) ==
    IF ls = <<>> THEN <<>>
    ELSE IF Len(ls) = 1 THEN ls[1]
    ELSE ls[1] \o <<"\n">> \o JoinNewline(Tail(ls))

\* the document write_ass writes: the header, then one line per phrase; its
\* text is header + "\n".join(lines)
AssDocument(phrs, cv, style) ==
    LET lns == [k \in 1..Len(phrs) |-> ass_line(phrs[k])]
    IN  [header |-> ass_header(cv, style),
         lines  |-> lns,
         text   |-> HeaderText(HeaderLines(ass_header(cv, style)))
                    \o JoinNewline([k \in 1..Len(lns) |-> RenderLine(lns[k])])]

(***************************************************************************)
(* Transcript parser                                                       *)
(*                                                                         *)
(* A transcript is the sequence of its blocks (what re.split on blank      *)
(* lines gives), a block the sequence of its lines (block.strip().split):  *)
(* no line of a block is blank, since a blank line separates blocks.       *)
(***************************************************************************)
\* the regex class \s, on the whitespace of the model
IsSpace(c) == c = " "

\* the regex class [\d:,]
IsTimeChar(c) == IsDigit(c) \/ c = ":" \/ c = ","

\* the first position from k on (1-based) that holds no [\d:,] character
RECURSIVE TimeRunEnd(_, _)
TimeRunEnd(s, k) ==
    IF k <= Len(s) /\ IsTimeChar(s[k]) THEN TimeRunEnd(s, k + 1) ELSE k

\* the first position from k on that holds no whitespace
RECURSIVE SpaceRunEnd(_, _)
SpaceRunEnd(s, k) ==
    IF k <= Len(s) /\ IsSpace(s[k]) THEN SpaceRunEnd(s, k + 1) ELSE k

\* re.match(r"([\d:,]+)\s*-->\s*([\d:,]+)", tline): both runs are greedy and
\* no shorter run can match, as the character after a shorter run is in the
\* class and so is neither whitespace nor "-"
TimeLineMatch(tline) ==
    LET e1 == TimeRunEnd(tline, 1)
        a  == SpaceRunEnd(tline, e1)
        b  == SpaceRunEnd(tline, a + 3)
        e2 == TimeRunEnd(tline, b)
    IN  IF /\ e1 > 1
           /\ a + 2 <= Len(tline)
           /\ SubSeq(tline, a, a + 2) = <<"-", "-", ">">>
           /\ e2 > b
        THEN [ok |-> TRUE, g1 |-> SubSeq(tline, 1, e1 - 1),
              g2 |-> SubSeq(tline, b, e2 - 1)]
        ELSE [ok |-> FALSE, g1 |-> <<>>, g2 |-> <<>>]

\* str.strip
RECURSIVE LStrip(_)
LStrip(t) == IF t # <<>> /\ IsSpace(t[1]) THEN LStrip(Tail(t)) ELSE t

Strip(t) == LStrip(RStrip(t))

\* " ".join(lines)
RECURSIVE JoinLines(_)
JoinLines(ls) ==
    IF ls = <<>> THEN <<>>
    ELSE IF Len(ls) = 1 THEN ls[1]
    ELSE ls[1] \o <<" ">> \o JoinLines(Tail(ls))

Word(text, s, e) == [text |-> text, start_ms |-> s, end_ms |-> e]

\* what the loop body does with one block: it skips the block, appends a
\* word, or a parse_time_to_ms call raises
ParseBlock(lines) ==
    IF Len(lines) < 3 THEN [kind |-> "skip"]
    ELSE LET m == TimeLineMatch(lines[2])
         IN  IF ~m.ok THEN [kind |-> "skip"]
             ELSE LET st == parse_time_to_ms(m.g1)
                      en == parse_time_to_ms(m.g2)
                      text == Strip(JoinLines(SubSeq(lines, 3, Len(lines))))
                  IN  IF st.err \/ en.err THEN [kind |-> "raise"]
                      ELSE IF text # <<>>
                           THEN [kind |-> "word",
                                 word |-> Word(text, st.val, en.val)]
                           ELSE [kind |-> "skip"]

\* the loop over the blocks from block k on, with the words so far
RECURSIVE ParseLoop(_, _, _)
ParseLoop(blocks, k, ws) ==
    IF k > Len(blocks) THEN Value(ws)
    ELSE LET r == ParseBlock(blocks[k])
         IN  IF r.kind = "raise" THEN [err |-> TRUE, val |-> <<>>]
             ELSE IF r.kind = "word"
                  THEN ParseLoop(blocks, k + 1, Append(ws, r.word))
                  ELSE ParseLoop(blocks, k + 1, ws)

parse_srt_word_level(blocks) == ParseLoop(blocks, 1, <<>>)

(***************************************************************************)
(* Text constants of the model's inputs                                    *)
(***************************************************************************)
T_si == <<"s", "i">>
T_fin == <<"f", "i", "n", ".">>
T_Hola == <<"H", "o", "l", "a">>
T_mundo == <<"m", "u", "n", "d", "o">>
T_casa == <<"c", "a", "s", "a">>
T_chocolate == <<"c", "h", "o", "c", "o", "l", "a", "t", "e">>
T_dots == <<".", ".", ".">>
T_arrow == <<" ", "-", "-", ">", " ">>

\* a narrow layout, on which a line holds 9 characters
NARROW_VIDEO ==
    [width |-> 64, height |-> 36, font_size |-> 10,
     margin_left |-> 5, margin_right |-> 5, margin_vertical |-> 4]

\* a grouping policy with a pause threshold below the merge pause
SHORT_GROUP == [pause_threshold_ms |-> 100]

\* a grouping policy with a pause threshold above every pause of the model
LONG_GROUP == [pause_threshold_ms |-> 1500]

(***************************************************************************)
(* Idle values: what the variables of the other operations hold while one  *)
(* operation is followed                                                   *)
(***************************************************************************)
TimeIdle ==
    /\ segundos = [ms |-> 0, tenth |-> 0]
    /\ time_str = <<>>
    /\ tresult = Value(0)
    /\ tpc = "idle"

SylIdle == word = <<>> /\ parts = <<>> /\ i = 0 /\ spc = "idle"

NoLine ==
    [layer |-> 0, start |-> <<>>, end |-> <<>>, style |-> "", units |-> <<>>]

LineIdle == phrase_words = <<>> /\ line = NoLine /\ lpc = "idle"

NoDocument ==
    [header |-> ass_header(DEFAULT_VIDEO, DEFAULT_STYLE), lines |-> <<>>,
     text |-> <<>>]

\* the file at ass_output: absent, left by an earlier run, or written by
\* this call
AbsentFile == [state |-> "absent", doc |-> NoDocument]
PreviousFile == [state |-> "previous", doc |-> NoDocument]
WrittenFile(doc) == [state |-> "written", doc |-> doc]

NoReturn == [phrases |-> 0, words |-> 0]

FileIdle ==
    /\ srt = <<>> /\ ass_file = AbsentFile /\ ret = NoReturn /\ pc = "idle"
    /\ cfg_style = DEFAULT_STYLE

GroupIdle ==
    /\ words = <<>> /\ cfg_video = DEFAULT_VIDEO /\ cfg_group = DEFAULT_GROUP
    /\ phrases = <<>> /\ optimized = <<>> /\ gpc = "idle"
    /\ previous = <<>>

\* estado.json that does not exist, a job that is not in estados_jobs, a
\* state without the key "error"
NoEstado == [status |-> "absent", progreso |-> 0, error |-> ""]
NoError == ""

\* a thread that was not started
NoHilo == [step |-> "none", stage |-> 0, kept |-> NoError, last |-> NoEstado]

KaraokeIdle ==
    /\ archivo_estado = NoEstado /\ estados_jobs = NoEstado
    /\ video_karaoke = FALSE /\ hilos = <<>>
    /\ handler = [pc |-> "idle", kept |-> NoError]
    /\ respuestas = <<>>

UploadIdle == default_job_id = 0 /\ uploads = <<>>

JobIdle == KaraokeIdle /\ UploadIdle

(***************************************************************************)
(* convertir_srt_a_ass                                                     *)
(***************************************************************************)
MaxBlocks == 3

\* the time-range line of a block written by the transcriber
TimeLine(s, e) ==
    segundos_a_tiempo_srt([ms |-> s, tenth |-> 0]) \o T_arrow
    \o segundos_a_tiempo_srt([ms |-> e, tenth |-> 0])

\* the blocks the model's transcripts are made of: well-formed blocks (one
\* with its end before its start, one with two text lines more than an hour
\* into the recording, one with spaces around its text), a block of two
\* lines, a block whose range has no arrow, and blocks with a timestamp
\* that is not HH:MM:SS,mmm
SampleBlocks ==
    { <<<<"1">>, TimeLine(0, 500), T_Hola>>,
      <<<<"2">>, TimeLine(600, 1000), T_mundo>>,
      <<<<"3">>, TimeLine(2200, 2500), <<" ">> \o T_fin \o <<" ">>>>,
      <<<<"4">>, TimeLine(2000, 1000), T_si>>,
      <<<<"5">>, TimeLine(3723456, 3723999), T_si, T_fin>>,
      <<<<"6">>, TimeLine(0, 500)>>,
      <<<<"7">>, Fmt(0, 2) \o <<" ", "-", ">", " ">> \o Fmt(0, 2), T_si>>,
      <<<<"8">>, Tail(TimeLine(0, 500)), T_si>>,
      <<<<"9">>, SubSeq(TimeLine(0, 500), 1, 2 * TimeLen + 1), T_si>> }

Transcripts ==
    UNION { [1..n -> SampleBlocks] : n \in 0..MaxBlocks }

InitFile ==
    /\ srt \in Transcripts
    /\ ass_file \in {AbsentFile, PreviousFile}
    /\ ret = NoReturn
    /\ pc = "parse"
    /\ cfg_video \in {DEFAULT_VIDEO, NARROW_VIDEO}
    /\ cfg_group = DEFAULT_GROUP
    /\ cfg_style = DEFAULT_STYLE
    /\ words = <<>> /\ phrases = <<>> /\ optimized = <<>> /\ gpc = "idle"
    /\ previous = <<>>
    /\ TimeIdle /\ SylIdle /\ LineIdle
    /\ JobIdle

\* ConvertirParse without the check for an empty word list
Mut_ConvertirParse ==
    /\ pc = "parse"
    /\ LET r == parse_srt_word_level(srt)
       IN  IF r.err
           THEN /\ pc' = "raised"
                /\ UNCHANGED words
           ELSE /\ pc' = "group"
                /\ words' = r.val
    /\ UNCHANGED <<srt, ass_file, ret, cfg_style, cfg_video, cfg_group,
                   phrases, optimized, gpc, previous, timeVars, sylVars,
                   lineVars, jobVars>>

\* words = parse_srt_word_level(srt_path); a ValueError of parse_time_to_ms
\* leaves the call, and so does the ValueError raised for an empty list
ConvertirParse ==
    /\ pc = "parse"
    /\ LET r == parse_srt_word_level(srt)
       IN  IF r.err \/ r.val = <<>>
           THEN /\ pc' = "raised"
                /\ UNCHANGED words
           ELSE /\ pc' = "group"
                /\ words' = r.val
    /\ UNCHANGED <<srt, ass_file, ret, cfg_style, cfg_video, cfg_group,
                   phrases, optimized, gpc, previous, timeVars, sylVars,
                   lineVars, jobVars>>

\* phrases = group_words(words, cfg_video, cfg_group)
ConvertirGroup ==
    /\ pc = "group"
    /\ phrases' = SplitPhrases(words, cfg_video, cfg_group)
    /\ optimized' = group_words(words, cfg_video, cfg_group)
    /\ pc' = "write"
    /\ UNCHANGED <<srt, ass_file, ret, cfg_style, words, cfg_video,
                   cfg_group, gpc, previous, timeVars, sylVars, lineVars,
                   jobVars>>

\* write_ass: the header and every line are built, then the file is opened
\* and written in one call
ConvertirWrite ==
    /\ pc = "write"
    /\ ass_file' =
           WrittenFile(AssDocument(optimized, cfg_video, cfg_style))
    /\ pc' = "return"
    /\ UNCHANGED <<srt, ret, cfg_style, groupVars, timeVars, sylVars,
                   lineVars, jobVars>>

ConvertirReturn ==
    /\ pc = "return"
    /\ ret' = [phrases |-> Len(optimized), words |-> Len(words)]
    /\ pc' = "done"
    /\ UNCHANGED <<srt, ass_file, cfg_style, groupVars, timeVars, sylVars,
                   lineVars, jobVars>>

Next == ConvertirParse \/ ConvertirGroup \/ ConvertirWrite \/ ConvertirReturn

Spec == InitFile /\ [][Next]_vars

\* a timestamp that is HH:MM:SS,mmm and nothing else
ExactTime(s) == Len(s) = TimeLen /\ TimeMatch(s)

\* a block the transcript format calls well-formed: an index line, a range
\* of two HH:MM:SS,mmm timestamps around an arrow, and some text
WellFormedBlock(lines) ==
    /\ Len(lines) >= 3
    /\ TimeLineMatch(lines[2]).ok
    /\ ExactTime(TimeLineMatch(lines[2]).g1)
    /\ ExactTime(TimeLineMatch(lines[2]).g2)
    /\ Strip(JoinLines(SubSeq(lines, 3, Len(lines)))) # <<>>

RECURSIVE WellFormedWords(_)
WellFormedWords(blocks) ==
    IF blocks = <<>> THEN <<>>
    ELSE (IF WellFormedBlock(Head(blocks))
          THEN LET b == Head(blocks)
               IN  <<Word(Strip(JoinLines(SubSeq(b, 3, Len(b)))),
                          TimeFields(TimeLineMatch(b[2]).g1),
                          TimeFields(TimeLineMatch(b[2]).g2))>>
          ELSE <<>>)
         \o WellFormedWords(Tail(blocks))

\* C4: convertir_srt_a_ass is all or nothing.  A call whose parse yields no
\* word ends raised; a raised call has written no document; and a document
\* is in the file only once the words were parsed and grouped and every
\* line rendered: it is then the whole document of those phrases.
C4_AllOrNothing ==
    /\ (pc = "raised" => ass_file.state # "written")
    /\ (pc # "parse" /\ parse_srt_word_level(srt).val = <<>> => pc = "raised")
    /\ (ass_file.state = "written" =>
           /\ pc \in {"return", "done"}
           /\ words # <<>>
           /\ Flatten(optimized) = words
           /\ Len(ass_file.doc.lines) = Len(optimized)
           /\ \A k \in 1..Len(optimized) :
                  ass_file.doc.lines[k] = ass_line(optimized[k]))

\* C4 witness: the empty transcript made the call fail, and the file an
\* earlier run left is still there
C4_Witness == pc = "raised" /\ srt = <<>> /\ ass_file = PreviousFile

\* C5: a transcript with a well-formed block is compiled, whatever its
\* malformed blocks: the call does not fail, the words are those of the
\* well-formed blocks in order, and the document is written.
C5_MalformedBlocksSkipped ==
    (/\ pc \in {"raised", "done"}
     /\ \E k \in 1..Len(srt) : WellFormedBlock(srt[k]))
        => /\ pc = "done"
           /\ words = WellFormedWords(srt)
           /\ ass_file.state = "written"

\* C8: every word the parser returned has trimmed, non-empty text and
\* 0 <= start_ms <= end_ms.
C8_TimedWordInvariant ==
    pc # "parse" =>
        \A k \in 1..Len(words) :
            /\ words[k].text # <<>>
            /\ Strip(words[k].text) = words[k].text
            /\ words[k].start_ms >= 0
            /\ words[k].end_ms >= words[k].start_ms

\* text.split("\n"): the lines of a text.  Line j runs from after newline
\* j - 1 of the text to before newline j, or to the end of the text.
NewlineAt(text, j) ==
    LET nl == {k \in 1..Len(text) : text[k] = "\n"}
    IN  IF j = 0 THEN 0
        ELSE IF j > Cardinality(nl) THEN Len(text) + 1
        ELSE CHOOSE k \in nl : Cardinality({m \in nl : m <= k}) = j

SplitNewline(text) ==
    LET n == Cardinality({k \in 1..Len(text) : text[k] = "\n"})
    IN  [j \in 1..(n + 1) |->
            SubSeq(text, NewlineAt(text, j - 1) + 1, NewlineAt(text, j) - 1)]

IsDialogue(ln) == ln # <<>> /\ ln[1] = "Dialogue: "

RECURSIVE DialogueCount(_)
DialogueCount(lns) ==
    IF lns = <<>> THEN 0
    ELSE (IF IsDialogue(Head(lns)) THEN 1 ELSE 0) + DialogueCount(Tail(lns))

RECURSIVE WordCount(_)
WordCount(phrs) ==
    IF phrs = <<>> THEN 0 ELSE Len(Head(phrs)) + WordCount(Tail(phrs))

\* C13: the text written is the lines of the header followed by one
\* Dialogue line per phrase, in phrase order, one newline between two lines
\* and none after the last; the call returns the number of Dialogue lines as
\* "phrases" and, as "words", the number of words parsed, which is the
\* number of words of all the phrases.
C13_OneLinePerPhrase ==
    /\ ass_file.state = "written" =>
           LET lns == SplitNewline(ass_file.doc.text)
               hdr == Len(lns) - Len(optimized)
           IN  /\ hdr >= 1
               /\ \A k \in 1..hdr : ~IsDialogue(lns[k])
               /\ lns[hdr] # <<>>
               /\ \A k \in 1..Len(optimized) :
                      /\ IsDialogue(lns[hdr + k])
                      /\ lns[hdr + k] = RenderLine(ass_line(optimized[k]))
    /\ pc = "done" =>
           /\ ret.phrases = DialogueCount(SplitNewline(ass_file.doc.text))
           /\ ret.phrases = Len(optimized)
           /\ ret.words = Len(parse_srt_word_level(srt).val)
           /\ ret.words = WordCount(optimized)

\* C13 witness: a call returned after writing two Dialogue lines or more
\* for more words than lines
C13_Witness ==
    /\ pc = "done" /\ ass_file.state = "written"
    /\ ret.phrases >= 2 /\ ret.words > ret.phrases
    /\ DialogueCount(SplitNewline(ass_file.doc.text)) = ret.phrases

\* a text of the form H:MM:SS.cc: hours of one digit or more without a
\* leading zero, minutes and seconds below 60, two digits of centiseconds
IsDotClock(t) ==
    LET n == Len(t) - 9
    IN  /\ n >= 1
        /\ \A k \in 1..n : IsDigit(t[k])
        /\ n > 1 => t[1] # "0"
        /\ t[n + 1] = ":" /\ t[n + 4] = ":" /\ t[n + 7] = "."
        /\ \A k \in {2, 3, 5, 6, 8, 9} : IsDigit(t[n + k])
        /\ IntOf(SubSeq(t, n + 2, n + 3)) < 60
        /\ IntOf(SubSeq(t, n + 5, n + 6)) < 60

\* the centiseconds a text H:MM:SS.cc stands for
DotClockCs(t) ==
    LET n == Len(t) - 9
    IN  IntOf(SubSeq(t, 1, n)) * 360000
        + IntOf(SubSeq(t, n + 2, n + 3)) * 6000
        + IntOf(SubSeq(t, n + 5, n + 6)) * 100
        + IntOf(SubSeq(t, n + 8, n + 9))

\* the transcript of two words, 0-500 ms and 600-1000 ms
Scenario1 ==
    << <<<<"1">>, TimeLine(0, 500), T_Hola>>,
       <<<<"2">>, TimeLine(600, 1000), T_mundo>> >>

\* C14: the start and the end of every Dialogue line written are texts
\* H:MM:SS.cc that stand for the whole centiseconds of the start_ms of the
\* first word of the phrase and of the end_ms of its last word; for the
\* transcript of two words, 0-500 ms and 600-1000 ms, under the defaults,
\* the single line runs from 0:00:00.00 to 0:00:01.00.
C14_LineSpansPhrase ==
    ass_file.state = "written" =>
        /\ \A k \in 1..Len(optimized) :
               LET ln == ass_file.doc.lines[k]
                   pw == optimized[k]
               IN  /\ IsDotClock(ln.start) /\ IsDotClock(ln.end)
                   /\ DotClockCs(ln.start) = pw[1].start_ms \div 10
                   /\ DotClockCs(ln.end) = pw[Len(pw)].end_ms \div 10
        /\ (srt = Scenario1 /\ cfg_video = DEFAULT_VIDEO) =>
               /\ Len(ass_file.doc.lines) = 1
               /\ ass_file.doc.lines[1].start
                      = <<"0", ":", "0", "0", ":", "0", "0", ".", "0", "0">>
               /\ ass_file.doc.lines[1].end
                      = <<"0", ":", "0", "0", ":", "0", "1", ".", "0", "0">>

\* C14 witness: the transcript of the two words was written as one line,
\* under the defaults
C14_Witness ==
    /\ ass_file.state = "written" /\ srt = Scenario1
    /\ cfg_video = DEFAULT_VIDEO /\ Len(ass_file.doc.lines) = 1
    /\ Len(optimized[1]) = 2

(***************************************************************************)
(* The time codec on its own: a time is formatted and parsed back, or a    *)
(* text near a formatted time is read from a transcript and parsed         *)
(***************************************************************************)
MaxSmallMs == 300
\* the hours two digits can hold are below this
HourLimit == 100

\* the times the codec is followed on: every millisecond of a short range,
\* and the corners of the fields up to and including 100 hours
SampleMs ==
    (0..MaxSmallMs)
    \cup { h * HourMs + m * MinuteMs + sc * SecondMs + k :
             h \in {0, 1, 10, HourLimit - 1, HourLimit},
             m \in {0, 59}, sc \in {0, 59}, k \in {0, 1, 10, 999} }

\* texts that differ from a formatted time by one edit
Damaged(t) ==
    { t \o <<"5">>, t \o <<" ">>, <<" ">> \o t, Tail(t),
      SubSeq(t, 1, Len(t) - 1),
      [k \in 1..Len(t) |-> IF t[k] = "," THEN "." ELSE t[k]] }

InitTime ==
    /\ segundos \in [ms : SampleMs, tenth : {0, 3, 7}]
    /\ time_str = <<>>
    /\ tresult = Value(0)
    /\ tpc = "format"
    /\ SylIdle /\ LineIdle /\ FileIdle /\ GroupIdle
    /\ JobIdle

\* time_str = segundos_a_tiempo_srt(segundos)
TimeFormat ==
    /\ tpc = "format"
    /\ time_str' = segundos_a_tiempo_srt(segundos)
    /\ tpc' = "formatted"
    /\ UNCHANGED <<segundos, tresult, sylVars, lineVars, fileVars, groupVars,
            jobVars>>

\* a transcript holds a text that is not what the formatter wrote
TimeRead ==
    /\ tpc = "format"
    /\ time_str' \in Damaged(segundos_a_tiempo_srt(segundos))
    /\ tpc' = "read"
    /\ UNCHANGED <<segundos, tresult, sylVars, lineVars, fileVars, groupVars,
            jobVars>>

\* tresult = parse_time_to_ms(time_str)
TimeParse ==
    /\ tpc \in {"formatted", "read"}
    /\ tresult' = parse_time_to_ms(time_str)
    /\ tpc' = IF tpc = "formatted" THEN "roundtrip" ELSE "parsed"
    /\ UNCHANGED <<segundos, time_str, sylVars, lineVars, fileVars, groupVars,
            jobVars>>

NextTime == TimeFormat \/ TimeRead \/ TimeParse

SpecTime == InitTime /\ [][NextTime]_vars

\* C6: a whole number of milliseconds below 100 hours, formatted by
\* segundos_a_tiempo_srt and parsed by parse_time_to_ms, comes back as it was.
C6_TimestampRoundTrip ==
    (tpc = "roundtrip" /\ segundos.tenth = 0
        /\ segundos.ms < HourLimit * HourMs)
        => ~tresult.err /\ tresult.val = segundos.ms

\* C6 witness: 99:59:59,999 went round
C6_Witness ==
    /\ tpc = "roundtrip" /\ segundos.tenth = 0
    /\ segundos.ms = HourLimit * HourMs - 1
    /\ tresult = Value(segundos.ms)

\* C7: parse_time_to_ms raises for every text that is not exactly
\* HH:MM:SS,mmm, and returns the value of the four fields otherwise.
C7_ExactFormOnly ==
    tpc \in {"roundtrip", "parsed"} =>
        /\ tresult.err <=> ~ExactTime(time_str)
        /\ ExactTime(time_str) => tresult.val = TimeFields(time_str)

(***************************************************************************)
(* split_syllables on its own, one iteration of its scan loop at a time    *)
(***************************************************************************)
MaxTokenLen == 4

\* two vowels, the letters of the digraphs in both cases, a plain
\* consonant and a character that is not a letter
SylAlphabet == {"a", "o", "c", "h", "l", "r", "C", "-"}

SylTokens ==
    UNION { [1..n -> SylAlphabet] : n \in 0..MaxTokenLen }
    \cup {T_chocolate, T_fin, T_dots}

InitSyl ==
    /\ word \in SylTokens
    /\ parts = <<>>
    /\ i = 0
    /\ spc = "call"
    /\ TimeIdle /\ LineIdle /\ FileIdle /\ GroupIdle
    /\ JobIdle

\* the two early returns
SylEarlyReturn ==
    /\ spc = "call"
    /\ word = <<>> \/ ~HasAlpha(word)
    /\ parts' = <<word>>
    /\ spc' = "done"
    /\ UNCHANGED <<word, i, timeVars, lineVars, fileVars, groupVars, jobVars>>

\* parts = [], i = 0
SylEnter ==
    /\ spc = "call"
    /\ word # <<>> /\ HasAlpha(word)
    /\ parts' = <<>>
    /\ i' = 0
    /\ spc' = "loop"
    /\ UNCHANGED <<word, timeVars, lineVars, fileVars, groupVars, jobVars>>

\* one iteration of while i < n
SylIter ==
    /\ spc = "loop"
    /\ i < Len(word)
    /\ parts' = Append(parts, SylPart(word, i))
    /\ i' = SylCut(word, i)
    /\ UNCHANGED <<word, spc, timeVars, lineVars, fileVars, groupVars, jobVars>>

\* return [p for p in parts if p]
SylReturn ==
    /\ spc = "loop"
    /\ i >= Len(word)
    /\ parts' = NonEmptyParts(parts)
    /\ spc' = "done"
    /\ UNCHANGED <<word, i, timeVars, lineVars, fileVars, groupVars, jobVars>>

NextSyl == SylEarlyReturn \/ SylEnter \/ SylIter \/ SylReturn

SpecSyl == InitSyl /\ [][NextSyl]_vars

\* C3: the parts split_syllables returns concatenate to the token; they are
\* non-empty when the token is; and an empty token or one without a letter
\* comes back as the single part.
C3_SyllablePartition ==
    spc = "done" =>
        /\ Concat(parts) = word
        /\ parts = split_syllables(word)
        /\ word # <<>> => \A k \in 1..Len(parts) : parts[k] # <<>>
        /\ (word = <<>> \/ ~HasAlpha(word)) => parts = <<word>>

\* C3 witness: a token with letters and another character was split in
\* more than one part
C3_Witness ==
    /\ spc = "done" /\ Len(parts) >= 3
    /\ HasAlpha(word) /\ \E k \in 1..Len(word) : ~IsAlpha(word[k])

\* the 0-based position in the token of the first character of part k
RECURSIVE PartStart(_, _)
PartStart(ps, k) ==
    IF k <= 1 THEN 0 ELSE Len(ps[k - 1]) + PartStart(ps, k - 1)

\* ch, ll or rr, in small or capital letters, at 0-based position c
DigraphAt(wd, c) ==
    /\ c + 2 <= Len(wd)
    /\ \/ wd[c + 1] \in {"c", "C"} /\ wd[c + 2] \in {"h", "H"}
       \/ wd[c + 1] \in {"l", "L"} /\ wd[c + 2] \in {"l", "L"}
       \/ wd[c + 1] \in {"r", "R"} /\ wd[c + 2] \in {"r", "R"}

\* C23: when a part of a token with a letter starts at ch, ll or rr, in
\* either case, both letters are in that part, together with the vowel
\* that follows them when one does; chocolate is split in cho, co, la, te.
C23_DigraphStaysTogether ==
    (spc = "done" /\ HasAlpha(word)) =>
        /\ \A k \in 1..Len(parts) :
               LET c == PartStart(parts, k)
               IN  DigraphAt(word, c) =>
                       /\ Len(parts[k]) >= 2
                       /\ (c + 3 <= Len(word) /\ word[c + 3] \in VOWELS)
                              => Len(parts[k]) >= 3
        /\ word = T_chocolate =>
               parts = << <<"c", "h", "o">>, <<"c", "o">>, <<"l", "a">>,
                          <<"t", "e">> >>

\* C23 witness: a token that starts with Ch and a vowel has them in its
\* first part
C23_Witness ==
    /\ spc = "done" /\ Len(word) >= 3
    /\ word[1] = "C" /\ word[2] = "h" /\ word[3] \in VOWELS
    /\ SubSeq(parts[1], 1, 3) = SubSeq(word, 1, 3)

\* the positions of the vowels of a part
VowelPos(p) == {m \in 1..Len(p) : p[m] \in VOWELS}

\* C24: of a token with a letter, every part returned is one character
\* that is not a letter, or letters only; the vowels of a part are one run;
\* when the run is followed in the token by two consonants, or by a
\* consonant and a vowel, the part ends with the run and the consonant
\* starts the next part; a part goes on after its run only by one
\* consonant, and only when what follows that consonant is not a letter or
\* is the end of the token.
C24_SyllableBoundary ==
    (spc = "done" /\ HasAlpha(word)) =>
        \A k \in 1..Len(parts) :
            LET p == parts[k]
                c == PartStart(parts, k)
            IN  /\ \/ Len(p) = 1 /\ ~IsAlpha(p[1])
                   \/ \A m \in 1..Len(p) : IsAlpha(p[m])
                /\ VowelPos(p) # {} =>
                       LET lv == CHOOSE m \in VowelPos(p) :
                                     \A o \in VowelPos(p) : o <= m
                           fv == CHOOSE m \in VowelPos(p) :
                                     \A o \in VowelPos(p) : o >= m
                           t == Len(p) - lv
                           r == c + lv
                       IN  /\ \A m \in fv..lv : p[m] \in VOWELS
                           /\ t \in {0, 1}
                           /\ t = 0 => ~is_vowel(word, r)
                           /\ (/\ is_consonant(word, r)
                               /\ \/ is_consonant(word, r + 1)
                                  \/ is_vowel(word, r + 1))
                                  => /\ t = 0
                                     /\ k < Len(parts)
                                     /\ parts[k + 1][1] = At(word, r)
                           /\ t = 1 =>
                                  /\ is_consonant(word, r)
                                  /\ r + 1 < Len(word)
                                         => ~IsAlpha(At(word, r + 1))

\* C24 witness: acac is split in a and cac: the first c is followed by a
\* vowel and starts the second part, the last c ends the token and closes
\* it
C24_Witness ==
    /\ spc = "done" /\ word = <<"a", "c", "a", "c">>
    /\ parts = << <<"a">>, <<"c", "a", "c">> >>

MaxScanLen == 4

\* a vowel, the letters of a digraph and a character that is not a letter:
\* one of each kind of step the cursor takes
ScanAlphabet == {"a", "c", "h", "-"}

ScanTokens ==
    UNION { [1..n -> ScanAlphabet] : n \in 0..MaxScanLen }
    \cup {T_chocolate, T_fin, T_dots}

InitScan ==
    /\ word \in ScanTokens
    /\ parts = <<>>
    /\ i = 0
    /\ spc = "call"
    /\ TimeIdle /\ LineIdle /\ FileIdle /\ GroupIdle
    /\ JobIdle

\* the scan loop takes its next step as long as it has one
SpecSylFair == InitScan /\ [][NextSyl]_vars /\ WF_vars(NextSyl)

\* the cursor is past as many characters as the loop made iterations, and
\* not past the end of the token; no more parts are returned than the
\* token has characters
CursorBound ==
    /\ spc = "loop" => Len(parts) <= i /\ i <= Len(word)
    /\ (spc = "done" /\ word # <<>>) => Len(parts) <= Len(word)

\* C25: every iteration of the scan loop moves the cursor forward, so the
\* loop makes at most len(token) iterations, at most len(token) parts are
\* returned, and split_syllables returns on every token.
C25_ScanTerminates ==
    /\ [][(spc = "loop" /\ spc' = "loop") => i' > i]_vars
    /\ []CursorBound
    /\ <>(spc = "done")

\* C25 witness: the loop made as many iterations as the token has
\* characters
C25_Witness ==
    /\ spc = "loop" /\ i = Len(word) /\ Len(parts) = MaxScanLen
    /\ Len(word) = MaxScanLen

(***************************************************************************)
(* group_words on its own: the split step, then the optimization pass      *)
(***************************************************************************)
MaxWords == 5
WordMs == 300
\* the calls of group_words that follow the first one
MaxRegroups == 1

GroupTexts == {T_si, T_fin}

\* pauses below the sentence pause, between it and the merge pause, and
\* above the default threshold
GroupGaps == {100, 550, 1200}

\* the words of a list of <<text, gap before the word>>, the first at start
RECURSIVE BuildWords(_, _)
BuildWords(ds, start) ==
    IF ds = <<>> THEN <<>>
    ELSE <<Word(Head(ds)[1], start, start + WordMs)>>
         \o (IF Len(ds) = 1 THEN <<>>
             ELSE BuildWords(Tail(ds), start + WordMs + ds[2][2]))

WordLists ==
    {<<>>}
    \cup { BuildWords(<<<<t, 0>>>> \o rest, 0) :
             t \in GroupTexts,
             rest \in UNION { [1..n -> GroupTexts \X GroupGaps] :
                                n \in 0..(MaxWords - 1) } }

InitGroup ==
    /\ words \in WordLists
    /\ cfg_video \in {DEFAULT_VIDEO, NARROW_VIDEO}
    /\ cfg_group \in {DEFAULT_GROUP, SHORT_GROUP, LONG_GROUP}
    /\ phrases = <<>>
    /\ optimized = <<>>
    /\ gpc = "call"
    /\ previous = <<>>
    /\ TimeIdle /\ SylIdle /\ LineIdle /\ FileIdle
    /\ JobIdle

\* if not words: return []
GroupEmpty ==
    /\ gpc = "call"
    /\ words = <<>>
    /\ optimized' = <<>>
    /\ gpc' = "done"
    /\ UNCHANGED <<words, cfg_video, cfg_group, phrases, previous,
                   timeVars, sylVars, lineVars, fileVars, jobVars>>

\* the split loop, to the end of the word list
GroupSplit ==
    /\ gpc = "call"
    /\ words # <<>>
    /\ phrases' = SplitPhrases(words, cfg_video, cfg_group)
    /\ gpc' = "split"
    /\ UNCHANGED <<words, cfg_video, cfg_group, optimized, previous,
                   timeVars, sylVars, lineVars, fileVars, jobVars>>

\* the optimization loop, to the end of the phrases; return optimized
GroupOptimize ==
    /\ gpc = "split"
    /\ optimized' = OptimizePhrases(phrases, cfg_video)
    /\ gpc' = "done"
    /\ UNCHANGED <<words, cfg_video, cfg_group, phrases, previous,
                   timeVars, sylVars, lineVars, fileVars, jobVars>>

\* a caller keeps the phrases it got and calls group_words again, with the
\* same configuration, on the words of those phrases
GroupAgain ==
    /\ gpc = "done"
    /\ Len(previous) < MaxRegroups
    /\ previous' = Append(previous, optimized)
    /\ words' = Flatten(optimized)
    /\ phrases' = <<>>
    /\ optimized' = <<>>
    /\ gpc' = "call"
    /\ UNCHANGED <<cfg_video, cfg_group,
                   timeVars, sylVars, lineVars, fileVars, jobVars>>

NextGroup == GroupEmpty \/ GroupSplit \/ GroupOptimize \/ GroupAgain

SpecGroup == InitGroup /\ [][NextGroup]_vars

\* the largest pause between two consecutive words of one phrase
NoPauseOver(phrs, limit) ==
    \A p \in 1..Len(phrs) : \A k \in 1..(Len(phrs[p]) - 1) :
        Pause(phrs[p][k], phrs[p][k + 1]) <= limit

\* C1: the phrases of the split step, and the phrases group_words returns,
\* are non-empty and concatenate to the word list.
C1_Partition ==
    /\ gpc \in {"split", "done"} =>
           /\ Flatten(phrases) = words
           /\ \A p \in 1..Len(phrases) : phrases[p] # <<>>
    /\ gpc = "done" =>
           /\ Flatten(optimized) = words
           /\ \A p \in 1..Len(optimized) : optimized[p] # <<>>

\* C1 witness: the split step made three phrases or more and the
\* optimization pass merged some of them
C1_Witness ==
    /\ gpc = "done" /\ Len(words) = MaxWords
    /\ Len(phrases) >= 3 /\ Len(optimized) < Len(phrases)

\* C9 as stated: no phrase returned holds two consecutive words whose pause
\* is greater than pause_threshold_ms.
C9_ThresholdBreaks ==
    gpc = "done" => NoPauseOver(optimized, cfg_group.pause_threshold_ms)

\* C9 as amended: no phrase of the split step holds two consecutive words
\* whose pause is greater than pause_threshold_ms, and no phrase returned
\* holds two consecutive words whose pause is both greater than
\* pause_threshold_ms and at least the merge pause of 600 ms.
C9_ThresholdBreaksAmended ==
    /\ gpc \in {"split", "done"} /\ words # <<>> =>
           NoPauseOver(phrases, cfg_group.pause_threshold_ms)
    /\ gpc = "done" =>
           NoPauseOver(optimized,
                       Max(cfg_group.pause_threshold_ms, MergePauseMs - 1))

\* C9 witness: under a threshold of 100 ms a pause of 1200 ms separated two
\* phrases of the result, and a pause of 550 ms is inside one
C9_Witness ==
    /\ gpc = "done" /\ cfg_group = SHORT_GROUP
    /\ \E p \in 1..(Len(optimized) - 1) :
           Pause(optimized[p][Len(optimized[p])], optimized[p + 1][1]) = 1200
    /\ ~NoPauseOver(optimized, cfg_group.pause_threshold_ms)

\* C10: under the default grouping policy no phrase returned holds two
\* consecutive words more than 800 ms apart, whatever the layout.
C10_DefaultGapSeparates ==
    (gpc = "done" /\ cfg_group = DEFAULT_GROUP) =>
        NoPauseOver(optimized, DEFAULT_GROUP.pause_threshold_ms)

\* C10 witness: two words 1200 ms apart, short enough to share a line, are
\* the last word of one phrase and the first of the next
C10_Witness ==
    /\ gpc = "done" /\ cfg_group = DEFAULT_GROUP /\ cfg_video = DEFAULT_VIDEO
    /\ Len(words) = 2 /\ Pause(words[1], words[2]) = 1200
    /\ optimized = <<<<words[1]>>, <<words[2]>>>>

\* the reasons for which the word w may start a new phrase after the line
\* ln: the pause after the last word of ln exceeds the threshold, that word
\* ends a sentence and the pause exceeds 500 ms, or ln with w appended is
\* wider than the line
StatedReason(ln, w, cv, cg) ==
    LET prev_w == ln[Len(ln)]
    IN  \/ w.start_ms - prev_w.end_ms > cg.pause_threshold_ms
        \/ /\ EndsSentence(prev_w.text)
           /\ w.start_ms - prev_w.end_ms > SentencePauseMs
        \/ (Len(JoinTexts(ln)) + 1 + Len(w.text))
               * estimate_char_width(cv.font_size) > 10 * available_width(cv)

EveryBreakHasReason(phrs, cv, cg) ==
    \A p \in 1..(Len(phrs) - 1) :
        StatedReason(phrs[p], phrs[p + 1][1], cv, cg)

\* C11: two consecutive words are in different phrases, after the split step
\* and in the phrases returned, only if the pause between them exceeds
\* pause_threshold_ms, or the earlier word ends in . ! ? and the pause
\* exceeds 500 ms, or the later word would have made the line too wide; two
\* words 100 ms apart that fit one line are one phrase under the default
\* threshold.
C11_SeparatedForAReason ==
    /\ gpc \in {"split", "done"} =>
           EveryBreakHasReason(phrases, cfg_video, cfg_group)
    /\ gpc = "done" => EveryBreakHasReason(optimized, cfg_video, cfg_group)
    /\ (/\ gpc = "done" /\ cfg_group = DEFAULT_GROUP
        /\ Len(words) = 2 /\ Pause(words[1], words[2]) = 100
        /\ Fits(words, cfg_video))
           => optimized = <<words>>

\* C11 witness: a phrase of the result ends where only the width of the line
\* is a reason to end it, and a pause of 100 ms after a sentence end is
\* inside a phrase
C11_Witness ==
    /\ gpc = "done"
    /\ \E p \in 1..(Len(optimized) - 1) :
           LET prev_w == optimized[p][Len(optimized[p])]
               w == optimized[p + 1][1]
           IN  /\ Pause(prev_w, w) = 100
               /\ ~EndsSentence(prev_w.text)
               /\ should_wrap_line(optimized[p], w, cfg_video)
    /\ \E p \in 1..Len(optimized) : \E k \in 1..(Len(optimized[p]) - 1) :
           /\ EndsSentence(optimized[p][k].text)
           /\ Pause(optimized[p][k], optimized[p][k + 1]) = 100

NoSentencePauseOver(phrs, limit) ==
    \A p \in 1..Len(phrs) : \A k \in 1..(Len(phrs[p]) - 1) :
        ~(/\ EndsSentence(phrs[p][k].text)
          /\ Pause(phrs[p][k], phrs[p][k + 1]) > limit)

\* C15 as stated: in the phrases returned, a word that ends in . ! ? and is
\* followed by a pause greater than 500 ms is the last word of its phrase.
C15_SentenceEndBreaks ==
    gpc = "done" => NoSentencePauseOver(optimized, SentencePauseMs)

\* C15 as amended: after the split step a word that ends in . ! ? and is
\* followed by a pause greater than 500 ms is the last word of its phrase;
\* in the phrases returned this holds when the pause is at least the merge
\* pause of 600 ms.
C15_SentenceEndBreaksAmended ==
    /\ gpc \in {"split", "done"} /\ words # <<>> =>
           NoSentencePauseOver(phrases, SentencePauseMs)
    /\ gpc = "done" => NoSentencePauseOver(optimized, MergePauseMs - 1)

\* C15 witness: under a threshold of 1500 ms a sentence end followed by a
\* pause of 1200 ms ends a phrase of the result, and a sentence end
\* followed by a pause of 550 ms is inside one
C15_Witness ==
    /\ gpc = "done" /\ cfg_group = LONG_GROUP
    /\ \E p \in 1..(Len(optimized) - 1) :
           /\ EndsSentence(optimized[p][Len(optimized[p])].text)
           /\ Pause(optimized[p][Len(optimized[p])], optimized[p + 1][1]) = 1200
           /\ ~should_wrap_line(optimized[p], optimized[p + 1][1], cfg_video)
    /\ ~NoSentencePauseOver(optimized, SentencePauseMs)

(***************************************************************************)
(* group_words on word lists with a long word, which fill the line of the  *)
(* default layout                                                          *)
(***************************************************************************)
MaxWrapWords == 4

\* a sung run of 29 letters: two of them and a space are 59 characters
T_lalala == [k \in 1..29 |-> IF k % 2 = 1 THEN "l" ELSE "a"]

WrapTexts == {T_si, T_fin, T_lalala}
WrapGaps == {100, 550}

WrapLists ==
    {<<>>}
    \cup { BuildWords(<<<<t, 0>>>> \o rest, 0) :
             t \in WrapTexts,
             rest \in UNION { [1..n -> WrapTexts \X WrapGaps] :
                                n \in 0..(MaxWrapWords - 1) } }

InitWrap ==
    /\ words \in WrapLists
    /\ cfg_video \in {DEFAULT_VIDEO, NARROW_VIDEO}
    /\ cfg_group \in {DEFAULT_GROUP, SHORT_GROUP}
    /\ phrases = <<>>
    /\ optimized = <<>>
    /\ gpc = "call"
    /\ previous = <<>>
    /\ TimeIdle /\ SylIdle /\ LineIdle /\ FileIdle
    /\ JobIdle

SpecWrap == InitWrap /\ [][NextGroup]_vars

\* the characters of the words of a phrase with one space between two words
RECURSIVE LineChars(_)
LineChars(pw) ==
    IF pw = <<>> THEN 0
    ELSE Len(Head(pw).text) + (IF Len(pw) > 1 THEN 1 ELSE 0)
         + LineChars(Tail(pw))

\* characters x font_size x 0.6 <= width - margin_left - margin_right, in
\* tenths of a pixel
FitsLine(pw, cv) ==
    LineChars(pw) * cv.font_size * 6
        <= 10 * (cv.width - cv.margin_left - cv.margin_right)

EveryLineFits(phrs, cv) ==
    \A p \in 1..Len(phrs) :
        Len(phrs[p]) >= 2 =>
            /\ FitsLine(phrs[p], cv)
            /\ cv = DEFAULT_VIDEO => LineChars(phrs[p]) <= 62

\* C16: every phrase of two words or more, after the split step and in the
\* phrases returned, fits the line: its characters x font_size x 0.6 are at
\* most width - margin_left - margin_right, which is 62 characters on the
\* default layout; a phrase wider than the line has a single word.
C16_LineWidth ==
    /\ gpc \in {"split", "done"} /\ words # <<>> =>
           EveryLineFits(phrases, cfg_video)
    /\ gpc = "done" => EveryLineFits(optimized, cfg_video)

\* C16 witness: on the default layout a merge made a phrase of exactly 62
\* characters, and a phrase next to it was not merged for its width
C16_Witness ==
    /\ gpc = "done" /\ cfg_video = DEFAULT_VIDEO
    /\ Len(optimized) < Len(phrases)
    /\ \E p \in 1..Len(optimized) :
           Len(optimized[p]) >= 2 /\ LineChars(optimized[p]) = 62
    /\ \E p \in 1..(Len(optimized) - 1) :
           /\ Pause(optimized[p][Len(optimized[p])], optimized[p + 1][1]) = 550
           /\ Len(optimized[p]) < MergeMaxWords
           /\ ~FitsLine(optimized[p] \o optimized[p + 1], cfg_video)

\* whether the phrase cur, followed by nxt, is to be merged with it: cur has
\* fewer than 4 words, the pause between them is below 600 ms and their
\* combined text fits the line
ToMerge(cur, nxt, cv) ==
    /\ Len(cur) < 4
    /\ nxt[1].start_ms - cur[Len(cur)].end_ms < 600
    /\ FitsLine(cur \o nxt, cv)

\* opt from its phrase p on is what one walk over phrs from its phrase k on
\* leaves: the walk merges phrase k with its successor, and skips the
\* successor, exactly when ToMerge holds, and keeps phrase k otherwise
RECURSIVE IsOneWalk(_, _, _, _, _)
IsOneWalk(phrs, k, opt, p, cv) ==
    IF k > Len(phrs) THEN p > Len(opt)
    ELSE IF p > Len(opt) THEN FALSE
    ELSE IF k + 1 <= Len(phrs) /\ ToMerge(phrs[k], phrs[k + 1], cv)
         THEN /\ opt[p] = phrs[k] \o phrs[k + 1]
              /\ IsOneWalk(phrs, k + 2, opt, p + 1, cv)
         ELSE /\ opt[p] = phrs[k]
              /\ IsOneWalk(phrs, k + 1, opt, p + 1, cv)

\* every phrase of opt is one phrase of phrs or two adjacent ones
OneOrTwo(phrs, opt) ==
    \A p \in 1..Len(opt) :
        \E k \in 1..Len(phrs) :
            \/ opt[p] = phrs[k]
            \/ k + 1 <= Len(phrs) /\ opt[p] = phrs[k] \o phrs[k + 1]

\* C17: the phrases returned are what one left-to-right walk over the
\* phrases of the split step leaves, which merges a phrase of fewer than 4
\* words with its successor exactly when the pause between them is below
\* 600 ms and the combined text fits, and then skips the successor; every
\* phrase returned is one phrase of the split step or two adjacent ones.
C17_SinglePassMerge ==
    (gpc = "done" /\ words # <<>>) =>
        /\ IsOneWalk(phrases, 1, optimized, 1, cfg_video)
        /\ OneOrTwo(phrases, optimized)
        /\ 2 * Len(optimized) >= Len(phrases)

\* C17 witness: a merged phrase of fewer than 4 words is followed, less than
\* 600 ms later, by a phrase that would fit its line, and was not merged
\* again
C17_Witness ==
    /\ gpc = "done"
    /\ \E p \in 1..(Len(optimized) - 1) :
           /\ \E k \in 1..(Len(phrases) - 1) :
                  optimized[p] = phrases[k] \o phrases[k + 1]
           /\ ToMerge(optimized[p], optimized[p + 1], cfg_video)

(***************************************************************************)
(* ass_line on its own, on phrases of one and of two words                 *)
(***************************************************************************)
MaxWordMs == 320

T_a_b == <<"a", "-", "b">>
\* a word of two syllables, of 2 and of 7 letters
T_lallaaaaa == <<"l", "a", "l", "l", "a", "a", "a", "a", "a">>

\* words of one, two and four syllables, with and without punctuation, and
\* a word without letters; none has more than 9 letters
LineTexts ==
    {T_si, T_casa, T_chocolate, T_fin, T_a_b, T_dots, T_lallaaaaa}

\* a single word of every duration from -10 ms on, starting at 0 or 1000 ms
SingleWords ==
    { <<Word(t, s, s + d)>> :
        t \in LineTexts, s \in {10, 1000}, d \in (-10)..MaxWordMs }

\* a first word followed, after a pause or overlapping it, by a second
WordPairs ==
    { <<Word(t1, s, s + d1), Word(t2, s + d1 + g, s + d1 + g + d2)>> :
        s \in {100}, t1 \in {T_si, T_casa}, d1 \in {5, 300},
        g \in {-50, 4, 15, 100},
        t2 \in {T_fin, T_dots}, d2 \in {0, 10, 300} }

InitLine ==
    /\ phrase_words \in SingleWords \cup WordPairs
    /\ line = NoLine
    /\ lpc = "call"
    /\ TimeIdle /\ SylIdle /\ FileIdle /\ GroupIdle
    /\ JobIdle

\* line = ass_line(phrase_words, cfg_video)
LineRender ==
    /\ lpc = "call"
    /\ line' = ass_line(phrase_words)
    /\ lpc' = "done"
    /\ UNCHANGED <<phrase_words, timeVars, sylVars, fileVars, groupVars,
                   jobVars>>

NextLine == LineRender

SpecLine == InitLine /\ [][NextLine]_vars

\* the units of the line that belong to word k of the phrase: each word is
\* followed by one pause unit, but for the last
RECURSIVE UnitsBefore(_, _)
UnitsBefore(pw, k) ==
    IF k = 1 THEN 0 ELSE UnitsBefore(pw, k - 1) + Len(Tokens(pw[k - 1])) + 1

UnitsOfWord(ln, pw, k) ==
    SubSeq(ln.units, UnitsBefore(pw, k) + 1,
           UnitsBefore(pw, k) + Len(Tokens(pw[k])))

\* the centiseconds given to the units with a letter
RECURSIVE TimedSum(_)
TimedSum(us) ==
    IF us = <<>> THEN 0
    ELSE (IF has_letters(Head(us).text) THEN Head(us).cs ELSE 0)
         + TimedSum(Tail(us))

\* C2: for every word of the phrase with dur_cs > 0 and a timed token, the
\* centiseconds of its timed tokens sum to dur_cs.
C2_TimingConservation ==
    lpc = "done" =>
        \A k \in 1..Len(phrase_words) :
            (/\ dur_cs(phrase_words[k]) > 0
             /\ TimedCount(Tokens(phrase_words[k])) >= 1)
                => TimedSum(UnitsOfWord(line, phrase_words, k))
                       = dur_cs(phrase_words[k])

\* the units of a word that hold a letter
TimedUnits(us) == SelectSeq(us, LAMBDA u : has_letters(u.text))

RECURSIVE SumCs(_)
SumCs(us) == IF us = <<>> THEN 0 ELSE Head(us).cs + SumCs(Tail(us))

RECURSIVE SumLen(_)
SumLen(us) == IF us = <<>> THEN 0 ELSE Len(Head(us).text) + SumLen(Tail(us))

NearestCs(w) ==
    LET x == w.end_ms - w.start_ms
    IN  IF x <= 0 THEN 0
        ELSE CHOOSE n \in 0..(x \div 10 + 1) :
                 LET e == IF 10 * n >= x THEN 10 * n - x ELSE x - 10 * n
                 IN  e < 5 \/ (e = 5 /\ n % 2 = 0)

\* C19: with dur_cs = round((end_ms - start_ms) / 10) floored at 0, the
\* units of a word with a timed token give at least 1 cs to every timed
\* token when dur_cs > 0, 0 to every token when dur_cs = 0, and 0 to every
\* untimed token; a word without a letter gives dur_cs to its first token
\* and 0 to the others.
C19_WhichTokensGetTime ==
    lpc = "done" =>
        \A k \in 1..Len(phrase_words) :
            LET us == UnitsOfWord(line, phrase_words, k)
                d == NearestCs(phrase_words[k])
            IN  /\ Concat([j \in 1..Len(us) |-> us[j].text])
                       = phrase_words[k].text
                /\ IF \E j \in 1..Len(us) : has_letters(us[j].text)
                   THEN \A j \in 1..Len(us) :
                            IF ~has_letters(us[j].text) \/ d = 0
                            THEN us[j].cs = 0
                            ELSE us[j].cs >= 1
                   ELSE /\ us[1].cs = d
                        /\ \A j \in 2..Len(us) : us[j].cs = 0
                /\ (Len(TimedUnits(us)) = 1 /\ d > 0) =>
                       TimedUnits(us)[1].cs = d

\* C19 witness: a word of 5 ms, which rounds to 0 cs, got 0 for its token,
\* and the word without letters after it carries its 30 cs
C19_Witness ==
    /\ lpc = "done" /\ Len(phrase_words) = 2
    /\ phrase_words[1].end_ms - phrase_words[1].start_ms = 5
    /\ UnitsOfWord(line, phrase_words, 1) = <<Unit(0, T_si)>>
    /\ UnitsOfWord(line, phrase_words, 2) = <<Unit(30, T_dots)>>

\* C20: for every word with a timed token, the centiseconds of its units sum
\* to at least dur_cs and, when dur_cs > 0, to at least the number of its
\* timed tokens.
C20_NeverUnderFilled ==
    lpc = "done" =>
        \A k \in 1..Len(phrase_words) :
            LET us == UnitsOfWord(line, phrase_words, k)
                d == NearestCs(phrase_words[k])
            IN  Len(TimedUnits(us)) >= 1 =>
                    /\ SumCs(us) >= d
                    /\ d > 0 => SumCs(us) >= Len(TimedUnits(us))

\* C20 witness: a word of 1 cs with two timed tokens was given 2 cs
C20_Witness ==
    /\ lpc = "done" /\ Len(phrase_words) = 1
    /\ phrase_words[1].text = T_casa
    /\ NearestCs(phrase_words[1]) = 1
    /\ SumCs(line.units) = 2

\* the whole number of centiseconds nearest to x milliseconds, the even one
\* of two that are equally near, and 0 for x that is not positive
NearestCsOf(x) ==
    IF x <= 0 THEN 0
    ELSE CHOOSE n \in 0..(x \div 10 + 1) :
             LET e == IF 10 * n >= x THEN 10 * n - x ELSE x - 10 * n
             IN  e < 5 \/ (e = 5 /\ n % 2 = 0)

RECURSIVE TokenTotal(_)
TokenTotal(pw) ==
    IF pw = <<>> THEN 0 ELSE Len(Tokens(Head(pw))) + TokenTotal(Tail(pw))

\* C21: in the line of a phrase of n words, the units of each word are
\* followed, but for the last word, by exactly one unit that is a single
\* space and carries round(max(0, next.start_ms - current.end_ms) / 10)
\* centiseconds, 0 when the words overlap; the line has n - 1 such units
\* and ends with the units of the last word.
C21_PauseUnits ==
    lpc = "done" =>
        LET n == Len(phrase_words)
        IN  /\ Len(line.units) = TokenTotal(phrase_words) + n - 1
            /\ \A k \in 1..n :
                   Concat([j \in 1..Len(UnitsOfWord(line, phrase_words, k)) |->
                              UnitsOfWord(line, phrase_words, k)[j].text])
                       = phrase_words[k].text
            /\ \A k \in 1..(n - 1) :
                   LET u == line.units[UnitsBefore(phrase_words, k + 1)]
                       gap == phrase_words[k + 1].start_ms
                                  - phrase_words[k].end_ms
                   IN  /\ u.text = <<" ">>
                       /\ u.cs = NearestCsOf(gap)
                       /\ gap <= 0 => u.cs = 0
            /\ Cardinality({j \in 1..Len(line.units) :
                                line.units[j].text = <<" ">>}) = n - 1

\* C21 witness: two words 15 ms apart are separated by one unit of 2 cs
C21_Witness ==
    /\ lpc = "done" /\ Len(phrase_words) = 2
    /\ phrase_words[2].start_ms - phrase_words[1].end_ms = 15
    /\ line.units[UnitsBefore(phrase_words, 2)] = Unit(2, <<" ">>)


(***************************************************************************)
(* ms_to_ass_time, as ass_line calls it on the start and on the end of a   *)
(* phrase of one word                                                      *)
(***************************************************************************)
MaxClockMs == 40

\* the times the clock is followed on: every millisecond of a short range,
\* and the corners of the fields up to 100 hours
ClockMs ==
    (0..MaxClockMs)
    \cup { h * HourMs + m * MinuteMs + sc * SecondMs + k :
             h \in {0, 1, 10, HourLimit},
             m \in {0, 59}, sc \in {0, 59}, k \in {0, 9, 10, 990, 999} }

InitClock ==
    /\ phrase_words \in { <<Word(T_si, s, e)>> : s \in ClockMs, e \in ClockMs }
    /\ line = NoLine
    /\ lpc = "call"
    /\ TimeIdle /\ SylIdle /\ FileIdle /\ GroupIdle
    /\ JobIdle

SpecClock == InitClock /\ [][NextLine]_vars

\* C22: for every whole number of milliseconds from 0 on, ms_to_ass_time
\* returns a text H:MM:SS.cc with MM and SS below 60 and cc below 100 that
\* stands for ms div 10 centiseconds; the time it stands for is never later
\* than ms, and of two arguments the larger never gets the earlier text.
C22_ClockTruncates ==
    lpc = "done" =>
        LET s == phrase_words[1].start_ms
            e == phrase_words[1].end_ms
        IN  /\ IsDotClock(line.start) /\ IsDotClock(line.end)
            /\ IntOf(SubSeq(line.start, Len(line.start) - 1,
                             Len(line.start))) < 100
            /\ DotClockCs(line.start) = s \div 10
            /\ DotClockCs(line.end) = e \div 10
            /\ 10 * DotClockCs(line.start) <= s
            /\ 10 * DotClockCs(line.end) <= e
            /\ s <= e => DotClockCs(line.start) <= DotClockCs(line.end)

\* C22 witness: 1:59:59.99 is the text of 7199999 ms, one millisecond
\* before two hours, and 100:00:00.00 that of 100 hours
C22_Witness ==
    /\ lpc = "done"
    /\ phrase_words[1].start_ms = 2 * HourMs - 1
    /\ line.start = <<"1", ":", "5", "9", ":", "5", "9", ".", "9", "9">>
    /\ phrase_words[1].end_ms = HourLimit * HourMs
    /\ DotClockCs(line.end) = HourLimit * 360000


(***************************************************************************)
(* convertir_srt_a_ass with a visual style supplied by the caller          *)
(***************************************************************************)
MaxStyleBlocks == 2

\* a style that differs from the default one by its name
TITLE_STYLE == [DEFAULT_STYLE EXCEPT !.name = "Titulo"]

\* three well-formed blocks and one whose range is not two timestamps
StyleBlocks ==
    { <<<<"1">>, TimeLine(0, 500), T_Hola>>,
      <<<<"2">>, TimeLine(600, 1000), T_mundo>>,
      <<<<"3">>, TimeLine(2200, 2500), T_fin>>,
      <<<<"8">>, Tail(TimeLine(0, 500)), T_si>> }

\* style = style or DEFAULT_STYLE: the default when the caller gives none
InitStyle ==
    /\ srt \in UNION { [1..n -> StyleBlocks] : n \in 0..MaxStyleBlocks }
    /\ ass_file \in {AbsentFile, PreviousFile}
    /\ ret = NoReturn
    /\ pc = "parse"
    /\ cfg_video \in {DEFAULT_VIDEO, NARROW_VIDEO}
    /\ cfg_group = DEFAULT_GROUP
    /\ cfg_style \in {DEFAULT_STYLE, TITLE_STYLE}
    /\ words = <<>> /\ phrases = <<>> /\ optimized = <<>> /\ gpc = "idle"
    /\ previous = <<>>
    /\ TimeIdle /\ SylIdle /\ LineIdle
    /\ JobIdle

SpecStyle == InitStyle /\ [][Next]_vars

\* the lines of the written document that start with Style:
StyleLines(lns) == {k \in 1..Len(lns) : lns[k] # <<>> /\ lns[k][1] = "Style: "}

\* the Style field of a Dialogue line: what stands between the comma after
\* its end time and the empty Name field
DialogueStyle(ln) ==
    ln[(CHOOSE m \in 1..Len(ln) : ln[m] = ",,0,0,0,,") - 1]

\* C26: whatever style the caller supplies, the written document has one
\* Style line, and the style field of every Dialogue line is the name that
\* Style line declares.
C26_DialogueStyleDeclared ==
    ass_file.state = "written" =>
        LET lns == SplitNewline(ass_file.doc.text)
        IN  /\ Cardinality(StyleLines(lns)) = 1
            /\ \A s \in StyleLines(lns) :
                   /\ lns[s][2] = cfg_style.name
                   /\ \A k \in 1..Len(lns) :
                          IsDialogue(lns[k]) =>
                              DialogueStyle(lns[k]) = lns[s][2]


(***************************************************************************)
(* The karaoke service of one job: POST /karaoke/ejecutar/{job_id} on the  *)
(* event loop, and the pipeline threads it starts.  A state is written by  *)
(* actualizar_estado_karaoke in two steps, the read of the previous state  *)
(* and the write, and other threads run between the two.                   *)
(***************************************************************************)
MaxRequests == 2

\* the states ejecutar_pipeline_karaoke and componer_video_karaoke write,
\* in the order of the calls
PipelineEstados ==
    << [status |-> "validando_archivos", progreso |-> 20],
       [status |-> "generando_video", progreso |-> 50],
       [status |-> "redimensionando", progreso |-> 60],
       [status |-> "preparando_composicion", progreso |-> 70],
       [status |-> "componiendo", progreso |-> 85],
       [status |-> "done", progreso |-> 100],
       [status |-> "done", progreso |-> 100] >>

\* what follows the write of each state: the call that can fail, the next
\* write, or the end of the thread
AfterWrite(stage) ==
    CASE stage = 1 -> "validar"
      [] stage = 3 -> "resize"
      [] stage = 5 -> "ffmpeg"
      [] stage = Len(PipelineEstados) -> "finished"
      [] OTHER -> "read"

\* the statuses for which ejecutar_karaoke answers "processing"
EnProcesamiento == {"processing", "validando_archivos", "generando_video"}

\* info_estado of actualizar_estado_karaoke
InfoEstado(status, progreso, kept) ==
    [status |-> status, progreso |-> progreso, error |-> kept]

\* info_estado of actualizar_estado_error_karaoke with progreso 50
Mut_InfoError(mensaje_error) ==
    [status |-> "error", progreso |-> 50, error |-> mensaje_error]

\* info_estado of actualizar_estado_error_karaoke
InfoError(mensaje_error) ==
    [status |-> "error", progreso |-> 0, error |-> mensaje_error]

\* estado_previo["error"] when the file exists and holds a non-empty one
ErrorPrevio ==
    IF archivo_estado = NoEstado THEN NoError ELSE archivo_estado.error

leer_estado_job_karaoke ==
    IF archivo_estado # NoEstado THEN archivo_estado
    ELSE IF estados_jobs # NoEstado THEN estados_jobs
    ELSE [status |-> "not_found", progreso |-> 0, error |-> NoError]

\* the messages of the HTTPExceptions the pipeline records
MensajeVideo == "No se encontro video instrumental"
MensajeResize == "Timeout durante redimensionado"
MensajeComposicion == "Error en composicion de video karaoke"

InitKaraoke ==
    /\ archivo_estado = NoEstado /\ estados_jobs = NoEstado
    /\ video_karaoke = FALSE /\ hilos = <<>>
    /\ handler = [pc |-> "idle", kept |-> NoError]
    /\ respuestas = <<>>
    /\ UploadIdle
    /\ TimeIdle /\ SylIdle /\ LineIdle /\ FileIdle /\ GroupIdle

OtherVars == <<timeVars, sylVars, lineVars, fileVars, groupVars, uploadVars>>

\* ejecutar_karaoke up to its decision: "done" when the video exists,
\* "processing" for three of the statuses, and otherwise the job is queued
EjecutarKaraoke ==
    /\ handler.pc = "idle"
    /\ Len(respuestas) < MaxRequests
    /\ IF video_karaoke
       THEN /\ respuestas' = Append(respuestas, "done")
            /\ UNCHANGED handler
       ELSE IF leer_estado_job_karaoke.status \in EnProcesamiento
       THEN /\ respuestas' = Append(respuestas, "processing")
            /\ UNCHANGED handler
       ELSE /\ handler' = [handler EXCEPT !.pc = "read"]
            /\ UNCHANGED respuestas
    /\ UNCHANGED <<archivo_estado, estados_jobs, video_karaoke, hilos,
                   OtherVars>>

\* actualizar_estado_karaoke(rutas, "queued", 0, ...): the previous state
\* is read
EjecutarLeer ==
    /\ handler.pc = "read"
    /\ handler' = [pc |-> "write", kept |-> ErrorPrevio]
    /\ UNCHANGED <<archivo_estado, estados_jobs, video_karaoke, hilos,
                   respuestas, OtherVars>>

\* "queued" is written, the thread is started and "queued" is returned
EjecutarIniciar ==
    /\ handler.pc = "write"
    /\ archivo_estado' = InfoEstado("queued", 0, handler.kept)
    /\ estados_jobs' = archivo_estado'
    /\ hilos' = Append(hilos, [step |-> "read", stage |-> 1,
                               kept |-> NoError, last |-> NoEstado])
    /\ respuestas' = Append(respuestas, "queued")
    /\ handler' = [pc |-> "idle", kept |-> NoError]
    /\ UNCHANGED <<video_karaoke, OtherVars>>

\* actualizar_estado_karaoke in a pipeline thread: the previous state is
\* read
EstadoLeer(t) ==
    /\ hilos[t].step = "read"
    /\ hilos' = [hilos EXCEPT ![t].step = "write", ![t].kept = ErrorPrevio]
    /\ UNCHANGED <<archivo_estado, estados_jobs, video_karaoke, handler,
                   respuestas, OtherVars>>

\* actualizar_estado_karaoke in a pipeline thread: the state is written to
\* the file and to estados_jobs
EstadoEscribir(t) ==
    /\ hilos[t].step = "write"
    /\ LET e == PipelineEstados[hilos[t].stage]
           info == InfoEstado(e.status, e.progreso, hilos[t].kept)
           nxt == AfterWrite(hilos[t].stage)
       IN  /\ archivo_estado' = info
           /\ estados_jobs' = info
           /\ hilos' = [hilos EXCEPT
                  ![t].step = nxt,
                  ![t].stage = IF nxt = "read" THEN @ + 1 ELSE @,
                  ![t].kept = NoError,
                  ![t].last = info]
    /\ UNCHANGED <<video_karaoke, handler, respuestas, OtherVars>>

\* a call of the pipeline returns, and the next state is written, or
\* raises, and the error is recorded
Returns(t) ==
    hilos' = [hilos EXCEPT ![t].step = "read", ![t].stage = @ + 1]

Raises(t, mensaje_error) ==
    hilos' = [hilos EXCEPT ![t].step = "error", ![t].kept = mensaje_error]

\* validar_archivos_entrada_karaoke: the video and the subtitles exist or
\* not
Validar(t) ==
    /\ hilos[t].step = "validar"
    /\ Returns(t) \/ Raises(t, MensajeVideo)
    /\ UNCHANGED <<archivo_estado, estados_jobs, video_karaoke, handler,
                   respuestas, OtherVars>>

\* ensure_video_resized: ffprobe and ffmpeg return, fail or time out
Redimensionar(t) ==
    /\ hilos[t].step = "resize"
    /\ Returns(t) \/ Raises(t, MensajeResize)
    /\ UNCHANGED <<archivo_estado, estados_jobs, video_karaoke, handler,
                   respuestas, OtherVars>>

\* subprocess.run of the composition: ffmpeg writes the video, or it
\* fails or times out and may leave what it wrote
Componer(t) ==
    /\ hilos[t].step = "ffmpeg"
    /\ \/ Returns(t) /\ video_karaoke' = TRUE
       \/ Raises(t, MensajeComposicion) /\ video_karaoke' \in BOOLEAN
    /\ UNCHANGED <<archivo_estado, estados_jobs, handler, respuestas,
                   OtherVars>>

\* actualizar_estado_error_karaoke
EstadoError(t) ==
    /\ hilos[t].step = "error"
    /\ archivo_estado' = InfoError(hilos[t].kept)
    /\ estados_jobs' = archivo_estado'
    /\ hilos' = [hilos EXCEPT
           ![t].step = "finished", ![t].kept = NoError,
           ![t].last = archivo_estado']
    /\ UNCHANGED <<video_karaoke, handler, respuestas, OtherVars>>

\* one step of ejecutar_pipeline_karaoke in thread t
Pipeline(t) ==
    /\ t \in 1..Len(hilos)
    /\ \/ EstadoLeer(t)
       \/ EstadoEscribir(t)
       \/ Validar(t)
       \/ Redimensionar(t)
       \/ Componer(t)
       \/ EstadoError(t)

NextKaraoke ==
    \/ EjecutarKaraoke
    \/ EjecutarLeer
    \/ EjecutarIniciar
    \/ \E t \in 1..Len(hilos) : EstadoLeer(t)
    \/ \E t \in 1..Len(hilos) : EstadoEscribir(t)
    \/ \E t \in 1..Len(hilos) : Validar(t)
    \/ \E t \in 1..Len(hilos) : Redimensionar(t)
    \/ \E t \in 1..Len(hilos) : Componer(t)
    \/ \E t \in 1..Len(hilos) : EstadoError(t)

SpecKaraoke == InitKaraoke /\ [][NextKaraoke]_vars

\* the pipeline threads that are running
Running == {t \in 1..Len(hilos) : hilos[t].step # "finished"}

\* C27: no pipeline thread is started for the job while an earlier one is
\* still running, whatever status the running one has recorded: at most
\* one is running at a time.
C27_OnePipelinePerJob == Cardinality(Running) <= 1


\* C29: once estado.json carries an error, every state written to it later
\* carries an error too.
C29_ErrorKept ==
    [][(archivo_estado.error # NoError /\ archivo_estado' # archivo_estado)
           => archivo_estado'.error # NoError]_vars

\* a started thread runs on: its calls return or raise, and its writes
\* succeed
SpecKaraokeFair ==
    SpecKaraoke /\ \A t \in 1..MaxRequests : WF_vars(Pipeline(t))

\* "done" with progreso 100, or "error" with progreso 0 and a message
Terminal(e) ==
    \/ e.status = "done" /\ e.progreso = 100
    \/ e.status = "error" /\ e.progreso = 0 /\ e.error # NoError

\* C30: every pipeline thread that was started ends, the last state it
\* wrote is "done" with progreso 100 or "error" with progreso 0 and a
\* message, and that state is what the job records when the thread writes
\* it.
C30_PipelineEnds ==
    /\ [](\A t \in 1..Len(hilos) :
              hilos[t].step = "finished" => Terminal(hilos[t].last))
    /\ [][\A t \in 1..Len(hilos) :
              (hilos[t].step # "finished" /\ hilos'[t].step = "finished")
                  => /\ archivo_estado' = hilos'[t].last
                     /\ estados_jobs' = hilos'[t].last]_vars
    /\ \A t \in 1..MaxRequests :
           (Len(hilos) >= t) ~> (Len(hilos) >= t /\ hilos[t].step = "finished")

\* C30 witness: the first thread ended with an error and the second one,
\* started afterwards, ended with the video
C30_Witness ==
    /\ Len(hilos) = 2
    /\ hilos[1].step = "finished" /\ hilos[1].last.status = "error"
    /\ hilos[2].step = "finished" /\ hilos[2].last.status = "done"
    /\ archivo_estado.status = "done" /\ video_karaoke


(***************************************************************************)
(* The upload handler: job = Job() for every request.  The default value   *)
(* of job_id, str(uuid.uuid4()), is evaluated when the def statement of    *)
(* Job.__init__ is executed, once, as the module is imported.              *)
(***************************************************************************)
MaxUploads == 3
MaxUuids == 4

\* the values uuid.uuid4() can return; 0 stands for a class that is not
\* defined yet
UuidPool == 1..MaxUuids

UploadFiles == {"a.mp4", "b.mp4", "c.mp4"}

\* media/{job_id}/videos/original.mp4
VIDEO_ORIGINAL(job_id) == <<"media", job_id, "videos", "original.mp4">>

InitUpload ==
    /\ default_job_id = 0
    /\ uploads = <<>>
    /\ KaraokeIdle
    /\ TimeIdle /\ SylIdle /\ LineIdle /\ FileIdle /\ GroupIdle

\* def __init__(self, job_id: str = str(uuid.uuid4()))
DefineJob ==
    /\ default_job_id = 0
    /\ default_job_id' \in UuidPool
    /\ UNCHANGED <<uploads, karaokeVars, timeVars, sylVars, lineVars,
                   fileVars, groupVars>>

\* self.id = job_id, for a call without an argument
Job == [id |-> default_job_id,
        video_original_file |-> VIDEO_ORIGINAL(default_job_id)]

\* job = Job(); job.crear_directorios(); the file of the request is written
\* to job.video_original_file
Upload ==
    /\ default_job_id # 0
    /\ Len(uploads) < MaxUploads
    /\ \E f \in UploadFiles :
           uploads' = Append(uploads, [job |-> Job, file |-> f])
    /\ UNCHANGED <<default_job_id, karaokeVars, timeVars, sylVars, lineVars,
                   fileVars, groupVars>>

NextUpload == DefineJob \/ Upload

SpecUpload == InitUpload /\ [][NextUpload]_vars

\* C28: no two uploads have the same job id, or write their video to the
\* same file.
C28_UniqueJobIds ==
    \A a, b \in 1..Len(uploads) :
        a # b => /\ uploads[a].job.id # uploads[b].job.id
                 /\ uploads[a].job.video_original_file
                        # uploads[b].job.video_original_file

====
